---- MODULE Spec2Model ----
(***************************************************************************)
(* A model of the aidoc-server request pipeline: HTTP-facing resource      *)
(* services (Patient, MedicalHistory, Lifestyle) that validate a request,  *)
(* load the addressed row, pass the authorization gate, merge and persist  *)
(* through repository adapters over three Postgres tables.                 *)
(*                                                                         *)
(* A request is handled by a worker.  Every database statement is one      *)
(* atomic step; the local computation of a handler (validation, the        *)
(* authorization call, the merge) is folded into the step of the           *)
(* statement that precedes it, because it reads no shared state.           *)
(***************************************************************************)
EXTENDS Integers, Sequences, FiniteSets, TLC

\* ---------------------------------------------------------------- bounds
\* Largest id a SERIAL column hands out in a run (ids are never reused).
MaxSerial == 2
\* The wall clock starts at StartTime and every write statement happens at a
\* later instant; writes stop once MaxWrites of them have been executed.
MaxWrites == 3

\* Instants are counted in half days from the zero time.Time (instant 0 is
\* 0001-01-01 00:00 UTC): an even instant is a midnight, an odd one a noon.
\* The clock starts at StartTime, which is 2024-02-29 00:00 UTC.
StartTime == 1477888

VARIABLES
    patients,                 \* table patients: patient_id -> row
    patient_lifestyle,        \* table patient_lifestyle: id -> row
    patient_medical_history,  \* table patient_medical_history: id -> row
    serial,                   \* next value of each table's SERIAL sequence
    now,                      \* the wall clock (time.Now(), NOW())
    rq,                       \* the requests being handled, one per worker
    service                   \* the service the requests of the run go to

vars == <<patients, patient_lifestyle, patient_medical_history, serial, now, rq,
          service>>

\* ---------------------------------------------------------------- errors
\* A Go error value: the sentinel or type at the bottom of its chain (base),
\* the message prefixes fmt.Errorf("...: %w") put around it (wrap), and the
\* payload of a *ValidationError.
MkErr(base, wrap, code, details) ==
    [base |-> base, wrap |-> wrap, code |-> code, details |-> details]

Nil == MkErr("nil", <<>>, "", <<>>)

ErrPatientNotFound == MkErr("ErrPatientNotFound", <<>>, "", <<>>)
ErrMedicalHistoryEntryNotFound == MkErr("ErrMedicalHistoryEntryNotFound", <<>>, "", <<>>)
ErrInvalidInput == MkErr("ErrInvalidInput", <<>>, "", <<>>)
ErrLifestyleEntryNotFound == MkErr("ErrLifestyleEntryNotFound", <<>>, "", <<>>)
ErrForbidden == MkErr("ErrForbidden", <<>>, "", <<>>)

\* &domain.ValidationError{Code, Message, Details}
ValidationError(code, details) == MkErr("ValidationError", <<>>, code, details)

\* database/sql and driver errors as the repositories see them
SqlErrNoRows == MkErr("sql.ErrNoRows", <<>>, "", <<>>)
PgError(sqlstate) == MkErr("PgError", <<>>, sqlstate, <<>>)
DriverError == MkErr("database error", <<>>, "", <<>>)

\* fmt.Errorf(prefix + ": %w", err)
Errorf(prefix, err) == [err EXCEPT !.wrap = <<prefix>> \o @]

\* errors.Is(err, target) for a sentinel target: walks the %w chain
ErrorsIs(err, target) == err.base = target.base /\ target.wrap = <<>>

\* errors.As(err, &validationErr)
ErrorsAsValidation(err) == err.base = "ValidationError"

\* pgErr, ok := err.(*pgconn.PgError); ok && pgErr.Code == code
\* (a type assertion: it does not unwrap)
IsPgError(err, sqlstate) ==
    err.base = "PgError" /\ err.wrap = <<>> /\ err.code = sqlstate

\* ------------------------------------------------------------ validation
\* Go zero values: "" for a string, 0 for an int, the zero time.Time (instant 0).
IsZeroVal(kind, v) == IF kind = "string" THEN v = "" ELSE v = 0

\* time.Time.IsZero()
IsZero(t) == t = 0

\* instants in a calendar day
TicksPerDay == 2

\* whole days between 0001-01-01 and the instant t
DayOf(t) == t \div TicksPerDay

\* a DATE column keeps the calendar day of a timestamp and reads back as the
\* midnight (UTC) of that day
Date(t) == DayOf(t) * TicksPerDay

\* days between 0001-01-01 and the first of January of year y
DaysBeforeYear(y) ==
    365 * (y - 1) + ((y - 1) \div 4) - ((y - 1) \div 100) + ((y - 1) \div 400)

\* time.Time.Year()
Year(t) ==
    CHOOSE y \in ((DayOf(t) \div 366) + 1)..((DayOf(t) \div 365) + 1) :
        DaysBeforeYear(y) <= DayOf(t) /\ DayOf(t) < DaysBeforeYear(y + 1)

\* time.Time.YearDay(): 1..365, or 1..366 in a leap year
YearDay(t) == DayOf(t) - DaysBeforeYear(Year(t)) + 1

RECURSIVE Join(_, _)
\* strings.Join: the text of a struct tag parameter from its words
Join(words, sep) ==
    IF Len(words) = 0 THEN ""
    ELSE IF Len(words) = 1 THEN words[1]
    ELSE words[1] \o sep \o Join(Tail(words), sep)

\* strings.Split(param, ","): a tag parameter is kept as its words and the
\* separator written between them in the struct tag.
SplitComma(param) ==
    IF param.sep = "," THEN param.words ELSE <<Join(param.words, param.sep)>>

\* strings.TrimSpace; no word of a tag parameter has blanks at its ends
TrimSpace(s) == s

\* validation.OneOfValidator
OneOfValidator(v, param) ==
    LET validValues == SplitComma(param)
    IN  \E i \in 1..Len(validValues) : v = TrimSpace(validValues[i])

\* validation.PastDateValidator: date.Before(time.Now())
PastDateValidator(kind, v, t) == kind = "time" /\ v < t

\* time.Parse("2006-01-02", s) succeeds on these texts
WellFormedDates == {"1994-01-01"}

\* validation.DateFormatValidator: the field must be a string holding a date
DateFormatValidator(kind, v) == kind = "string" /\ v \in WellFormedDates

\* validation.MinimumAgeValidator
MinimumAgeValidator(kind, v) == kind = "int" /\ v >= 18

\* texts matching ^\+?[1-9]\d{1,14}$ among the phone numbers of the model
WellFormedPhones == {"+15550100", "+15550199"}

\* validation.PhoneNumberValidator
PhoneNumberValidator(kind, v) == kind = "string" /\ (v = "" \/ v \in WellFormedPhones)

\* texts the library's email rule accepts among the addresses of the model
WellFormedEmails == {"ann@example.org", "bob@example.org", "cy@example.org"}

\* one tag of a field, as the validator configured by InitValidator runs it
TagHolds(tg, kind, v, t) ==
    CASE tg.tag = "required" -> ~IsZeroVal(kind, v)
      [] tg.tag = "pastdate" -> PastDateValidator(kind, v, t)
      [] tg.tag = "dateformat" -> DateFormatValidator(kind, v)
      [] tg.tag = "minage" -> MinimumAgeValidator(kind, v)
      [] tg.tag = "phoneNumber" -> PhoneNumberValidator(kind, v)
      [] tg.tag = "email" -> kind = "string" /\ v \in WellFormedEmails
      [] tg.tag = "oneof" -> kind = "string" /\ OneOfValidator(v, tg.param)
      [] OTHER -> FALSE

RECURSIVE FirstFailingTag(_, _, _, _)
\* the tags of one field run in order; omitempty ends the field when the
\* value is the zero value; the first failing tag is the field's error
FirstFailingTag(tags, kind, v, t) ==
    IF tags = <<>> THEN ""
    ELSE LET tg == Head(tags)
         IN  IF tg.tag = "omitempty"
             THEN IF IsZeroVal(kind, v) THEN ""
                  ELSE FirstFailingTag(Tail(tags), kind, v, t)
             ELSE IF TagHolds(tg, kind, v, t)
                  THEN FirstFailingTag(Tail(tags), kind, v, t)
                  ELSE tg.tag

RECURSIVE ValidateStructFailFast(_, _, _)
\* a validation that stops at the first failing field
ValidateStructFailFast(rules, req, t) ==
    IF rules = <<>> THEN <<>>
    ELSE LET r == Head(rules)
             bad == FirstFailingTag(r.tags, r.kind, req[r.field], t)
         IN  IF bad = "" THEN ValidateStructFailFast(Tail(rules), req, t)
             ELSE <<[Field |-> r.field, Tag |-> bad]>>

RECURSIVE ValidateStruct(_, _, _)
\* validator.Struct(req): every field is visited, in declaration order, and
\* each failing field adds one FieldError (its name and its failing tag)
ValidateStruct(rules, req, t) ==
    IF rules = <<>> THEN <<>>
    ELSE LET r == Head(rules)
             bad == FirstFailingTag(r.tags, r.kind, req[r.field], t)
             rest == ValidateStruct(Tail(rules), req, t)
         IN  IF bad = "" THEN rest
             ELSE <<[Field |-> r.field, Tag |-> bad]>> \o rest

NoParam == [words |-> <<>>, sep |-> " "]
Tag(name) == [tag |-> name, param |-> NoParam]
OneOf(words) == [tag |-> "oneof", param |-> [words |-> words, sep |-> " "]]
Rule(field, kind, tags) == [field |-> field, kind |-> kind, tags |-> tags]

\* the create request with its required tag left out
CreateLifestyleRequestRulesNoneRequired == <<
    Rule("LifestyleFactor", "string", <<>>),
    Rule("Value", "string", <<>>),
    Rule("StartDate", "time", <<>>),
    Rule("EndDate", "time", <<>>) >>

\* domain.CreateLifestyleRequest
CreateLifestyleRequestRules == <<
    Rule("LifestyleFactor", "string", <<Tag("required")>>),
    Rule("Value", "string", <<>>),
    Rule("StartDate", "time", <<>>),
    Rule("EndDate", "time", <<>>) >>

\* domain.UpdateLifestyleRequest
UpdateLifestyleRequestRules == <<
    Rule("LifestyleFactor", "string", <<>>),
    Rule("Value", "string", <<>>),
    Rule("StartDate", "time", <<>>),
    Rule("EndDate", "time", <<>>) >>

StatusValues == <<"Active", "Inactive", "Resolved">>

\* domain.CreateMedicalHistoryRequest
CreateMedicalHistoryRequestRules == <<
    Rule("Condition", "string", <<Tag("required")>>),
    Rule("DiagnosisDate", "time", <<Tag("omitempty"), Tag("pastdate")>>),
    Rule("Status", "string", <<Tag("required"), OneOf(StatusValues)>>),
    Rule("Details", "string", <<>>) >>

\* domain.UpdateMedicalHistoryRequest
UpdateMedicalHistoryRequestRules == <<
    Rule("Condition", "string", <<>>),
    Rule("DiagnosisDate", "time", <<Tag("omitempty"), Tag("pastdate")>>),
    Rule("Status", "string", <<Tag("omitempty"), OneOf(StatusValues)>>),
    Rule("Details", "string", <<>>) >>

SexValues == <<"Male", "Female", "Other">>
PreferredCommunicationValues == <<"Phone", "Email", "Text">>
SocioeconomicStatusValues == <<"Low", "Middle", "High", "Decline", "to", "Answer">>

\* domain.CreatePatientRequest
CreatePatientRequestRules == <<
    Rule("UserID", "int", <<Tag("required")>>),
    Rule("FullName", "string", <<Tag("required")>>),
    Rule("Age", "int", <<Tag("omitempty"), Tag("minage")>>),
    Rule("DateOfBirth", "time", <<Tag("required"), Tag("pastdate"), Tag("dateformat")>>),
    Rule("Sex", "string", <<Tag("required"), OneOf(SexValues)>>),
    Rule("PhoneNumber", "string", <<Tag("omitempty"), Tag("phoneNumber")>>),
    Rule("EmailAddress", "string", <<Tag("required"), Tag("email")>>),
    Rule("PreferredCommunication", "string",
         <<Tag("omitempty"), OneOf(PreferredCommunicationValues)>>),
    Rule("SocioeconomicStatus", "string",
         <<Tag("omitempty"), OneOf(SocioeconomicStatusValues)>>),
    Rule("GeographicLocation", "string", <<>>) >>

\* domain.UpdatePatientRequest
UpdatePatientRequestRules == <<
    Rule("FullName", "string", <<>>),
    Rule("Age", "int", <<Tag("omitempty"), Tag("minage")>>),
    Rule("DateOfBirth", "time", <<Tag("omitempty"), Tag("pastdate"), Tag("dateformat")>>),
    Rule("Sex", "string", <<Tag("omitempty"), OneOf(SexValues)>>),
    Rule("PhoneNumber", "string", <<Tag("omitempty"), Tag("phoneNumber")>>),
    Rule("EmailAddress", "string", <<Tag("omitempty"), Tag("email")>>),
    Rule("PreferredCommunication", "string",
         <<Tag("omitempty"), OneOf(PreferredCommunicationValues)>>),
    Rule("SocioeconomicStatus", "string",
         <<Tag("omitempty"), OneOf(SocioeconomicStatusValues)>>),
    Rule("GeographicLocation", "string", <<>>) >>

RECURSIVE ErrorDetails(_)
\* fmt.Sprintf("Field %s failed validation for tag %s", err.Field(), err.Tag())
ErrorDetails(fieldErrors) ==
    IF fieldErrors = <<>> THEN <<>>
    ELSE <<"Field " \o Head(fieldErrors).Field \o " failed validation for tag "
             \o Head(fieldErrors).Tag>> \o ErrorDetails(Tail(fieldErrors))

\* ---------------------------------------------------- authorization gate
\* fmt.Sprint(patientID) for the ids of the model
Sprint(n) == <<"0", "1", "2", "3", "4", "5", "6", "7", "8", "9">>[n + 1]

\* A text of profile metadata is kept as its pieces, so that a search for
\* "patient:read_all" can match across a key, the colon and a value.
ReadAll == <<"patient", ":", "read_all">>

\* strings.Contains on texts kept as pieces
Contains(hay, needle) ==
    \E i \in 1..(Len(hay) - Len(needle) + 1) :
        SubSeq(hay, i, i + Len(needle) - 1) = needle

RECURSIVE SprintEntries(_)
SprintEntries(md) ==
    IF md = <<>> THEN <<>>
    ELSE Head(md).k \o <<":">> \o Head(md).v
         \o (IF Len(md) > 1 THEN <<" ">> ELSE <<>>) \o SprintEntries(Tail(md))

\* fmt.Sprint of the metadata map: map[k1:v1 k2:v2], keys in order
SprintMetadata(md) == <<"map[">> \o SprintEntries(md) \o <<"]">>

\* The identity provider's users and their public metadata (key, value).
PublicMetadata(userID) ==
    CASE userID = "dr" -> << [k |-> <<"role">>, v |-> <<"physician">>] >>
      [] userID = "ck" -> << [k |-> <<"role">>, v |-> <<"clerk">>] >>
      [] userID = "nu" -> << [k |-> <<"role">>, v |-> <<"nurse">>] >>
      [] userID = "ra" -> << [k |-> <<"permissions">>, v |-> ReadAll] >>
      [] userID = "kv" -> << [k |-> <<"patient">>, v |-> <<"read_all">>],
                             [k |-> <<"team">>, v |-> <<"clerks">>] >>
      [] OTHER -> <<>>

\* clerk.User.GetUser(ctx, userID): the provider answers or fails (idp)
GetUser(userID, idp) ==
    IF idp = "error"
    THEN [err |-> MkErr("clerk: request failed", <<>>, "", <<>>), PublicMetadata |-> <<>>]
    ELSE [err |-> Nil, PublicMetadata |-> PublicMetadata(userID)]

\* the gate with its first rule dropped
AuthorizeNoSelfAccess(userID, patientID, idp) ==
    LET clerkUser == GetUser(userID, idp)
        md == clerkUser.PublicMetadata
    IN  IF clerkUser.err # Nil
        THEN [allowed |-> FALSE, err |-> clerkUser.err, lookups |-> 1]
        ELSE [allowed |-> (\E i \in 1..Len(md) : md[i].v \in {<<"physician">>, <<"clerk">>})
                          \/ Contains(SprintMetadata(md), ReadAll),
              err |-> Nil, lookups |-> 1]

\* authClient.Authorize(ctx, userID, patientID) (bool, error); lookups counts
\* the calls it makes to the identity provider
Authorize(userID, patientID, idp) ==
    IF Sprint(patientID) = userID
    THEN [allowed |-> TRUE, err |-> Nil, lookups |-> 0]
    ELSE LET clerkUser == GetUser(userID, idp)
             md == clerkUser.PublicMetadata
         IN  IF clerkUser.err # Nil
             THEN [allowed |-> FALSE, err |-> clerkUser.err, lookups |-> 1]
             ELSE IF \E i \in 1..Len(md) : md[i].v = <<"physician">> \/ md[i].v = <<"clerk">>
             THEN [allowed |-> TRUE, err |-> Nil, lookups |-> 1]
             ELSE IF Contains(SprintMetadata(md), ReadAll)
             THEN [allowed |-> TRUE, err |-> Nil, lookups |-> 1]
             ELSE [allowed |-> FALSE, err |-> Nil, lookups |-> 1]

\* a gate that lets every caller through
AuthorizeFnAllowAll(caller, patientID, idp) == TRUE

\* The services hold the gate as authorize func(context.Context, int) bool:
\* of Authorize's two results only the bool reaches them.
AuthorizeFn(caller, patientID, idp) == Authorize(caller, patientID, idp).allowed

\* --------------------------------------------------------------- storage
\* A nullable column holds <<>> (NULL) or <<v>>.
\* sql.NullString{String: v, Valid: v != ""} and its time and int likes
NullString(v) == [String |-> v, Valid |-> v # ""]
NullTime(t) == [Time |-> t, Valid |-> ~IsZero(t)]

\* what the driver writes for a Null* parameter
Column(val, valid) == IF valid THEN <<val>> ELSE <<>>

\* Scan of a nullable column into sql.NullString / sql.NullTime
ScanString(col) == [String |-> IF col = <<>> THEN "" ELSE col[1], Valid |-> col # <<>>]
ScanTime(col) == [Time |-> IF col = <<>> THEN 0 ELSE col[1], Valid |-> col # <<>>]

\* the result of a statement that returned no row
NoRow == <<>>

\* Writes stop when the clock has reached its last instant.
CanWrite == now < StartTime + MaxWrites

\* ---- table patient_lifestyle (sqlc: lifestyle.sql.go)
\* Each query gives its error, the row it returned and the table after it.
\* fault: the statement fails in the driver (connection lost, timeout).

QCreateLifestyleEntry(arg, fault) ==
    IF fault
    THEN [err |-> DriverError, row |-> NoRow, tbl |-> patient_lifestyle,
          seq |-> serial.patient_lifestyle]
    ELSE IF arg.PatientID \notin DOMAIN patients
    THEN [err |-> PgError("23503"), row |-> NoRow, tbl |-> patient_lifestyle,
          seq |-> serial.patient_lifestyle + 1]
    ELSE LET id == serial.patient_lifestyle
             row == [patient_lifestyle_id |-> id,
                     patient_id |-> arg.PatientID,
                     lifestyle_factor |-> arg.LifestyleFactor,
                     value |-> Column(arg.Value.String, arg.Value.Valid),
                     start_date |-> Column(Date(arg.StartDate.Time), arg.StartDate.Valid),
                     end_date |-> Column(Date(arg.EndDate.Time), arg.EndDate.Valid),
                     created_at |-> <<now>>,
                     updated_at |-> <<now>>]
         IN  [err |-> Nil, row |-> row, tbl |-> patient_lifestyle @@ (id :> row),
              seq |-> id + 1]

QGetLifestyleEntries(patientID, fault) ==
    IF fault THEN [err |-> DriverError, rows |-> <<>>]
    ELSE LET ids == {i \in DOMAIN patient_lifestyle :
                         patient_lifestyle[i].patient_id = patientID}
             RECURSIVE InOrder(_)
             InOrder(S) == IF S = {} THEN <<>>
                           ELSE LET m == CHOOSE x \in S : \A y \in S : x <= y
                                IN  <<patient_lifestyle[m]>> \o InOrder(S \ {m})
         IN  [err |-> Nil, rows |-> InOrder(ids)]

QGetLifestyleEntry(id, fault) ==
    IF fault THEN [err |-> DriverError, row |-> NoRow]
    ELSE IF id \notin DOMAIN patient_lifestyle
    THEN [err |-> SqlErrNoRows, row |-> NoRow]
    ELSE [err |-> Nil, row |-> patient_lifestyle[id]]

\* the statement with an upsert in place of the UPDATE ... WHERE
QUpdateLifestyleEntryUpsert(arg, fault) ==
    LET id == arg.PatientLifestyleID
        row == [patient_lifestyle_id |-> id,
                patient_id |-> 1,
                lifestyle_factor |-> arg.LifestyleFactor,
                value |-> Column(arg.Value.String, arg.Value.Valid),
                start_date |-> Column(Date(arg.StartDate.Time), arg.StartDate.Valid),
                end_date |-> Column(Date(arg.EndDate.Time), arg.EndDate.Valid),
                created_at |-> <<now>>,
                updated_at |-> <<now>>]
    IN  IF fault THEN [err |-> DriverError, row |-> NoRow, tbl |-> patient_lifestyle]
        ELSE [err |-> Nil, row |-> row,
              tbl |-> [i \in DOMAIN patient_lifestyle \cup {id} |->
                          IF i = id THEN row ELSE patient_lifestyle[i]]]

\* the statement with the column value left out of its SET list
QUpdateLifestyleEntryKeepsValue(arg, fault) ==
    LET id == arg.PatientLifestyleID
    IN  IF fault THEN [err |-> DriverError, row |-> NoRow, tbl |-> patient_lifestyle]
        ELSE IF id \notin DOMAIN patient_lifestyle
        THEN [err |-> SqlErrNoRows, row |-> NoRow, tbl |-> patient_lifestyle]
        ELSE LET row == [patient_lifestyle[id] EXCEPT
                            !.lifestyle_factor = arg.LifestyleFactor,
                            !.start_date = Column(Date(arg.StartDate.Time), arg.StartDate.Valid),
                            !.end_date = Column(Date(arg.EndDate.Time), arg.EndDate.Valid)]
             IN  [err |-> Nil, row |-> row,
                  tbl |-> [patient_lifestyle EXCEPT ![id] = row]]

\* UPDATE patient_lifestyle SET lifestyle_factor, value, start_date, end_date
\* WHERE patient_lifestyle_id = $1 RETURNING *   (updated_at is not set)
QUpdateLifestyleEntry(arg, fault) ==
    LET id == arg.PatientLifestyleID
    IN  IF fault THEN [err |-> DriverError, row |-> NoRow, tbl |-> patient_lifestyle]
        ELSE IF id \notin DOMAIN patient_lifestyle
        THEN [err |-> SqlErrNoRows, row |-> NoRow, tbl |-> patient_lifestyle]
        ELSE LET row == [patient_lifestyle[id] EXCEPT
                            !.lifestyle_factor = arg.LifestyleFactor,
                            !.value = Column(arg.Value.String, arg.Value.Valid),
                            !.start_date = Column(Date(arg.StartDate.Time), arg.StartDate.Valid),
                            !.end_date = Column(Date(arg.EndDate.Time), arg.EndDate.Valid)]
             IN  [err |-> Nil, row |-> row,
                  tbl |-> [patient_lifestyle EXCEPT ![id] = row]]

\* DELETE FROM patient_lifestyle WHERE patient_lifestyle_id = $1  (:exec: the
\* number of rows deleted is dropped, so a missing row is no error)
QDeleteLifestyleEntry(id, fault) ==
    IF fault THEN [err |-> DriverError, tbl |-> patient_lifestyle]
    ELSE [err |-> Nil,
          tbl |-> [i \in DOMAIN patient_lifestyle \ {id} |-> patient_lifestyle[i]]]

\* ---- LifestyleRepositoryImpl (postgres)
convertDbLifestyleEntryToDomain(dbEntry) ==
    [PatientLifestyleID |-> dbEntry.patient_lifestyle_id,
     PatientID |-> dbEntry.patient_id,
     LifestyleFactor |-> dbEntry.lifestyle_factor,
     Value |-> ScanString(dbEntry.value).String,
     StartDate |-> ScanTime(dbEntry.start_date).Time,
     EndDate |-> ScanTime(dbEntry.end_date).Time,
     CreatedAt |-> ScanTime(dbEntry.created_at).Time,
     UpdatedAt |-> ScanTime(dbEntry.updated_at).Time]

NoEntry == <<>>

RepoCreateLifestyleEntry(entry, fault) ==
    LET arg == [PatientID |-> entry.PatientID,
                LifestyleFactor |-> entry.LifestyleFactor,
                Value |-> NullString(entry.Value),
                StartDate |-> NullTime(entry.StartDate),
                EndDate |-> NullTime(entry.EndDate)]
        q == QCreateLifestyleEntry(arg, fault)
    IN  IF q.err # Nil
        THEN [err |-> Errorf("create lifestyle entry error", q.err), entry |-> NoEntry,
              tbl |-> q.tbl, seq |-> q.seq]
        ELSE [err |-> Nil, entry |-> convertDbLifestyleEntryToDomain(q.row),
              tbl |-> q.tbl, seq |-> q.seq]

RepoGetLifestyleEntries(patientID, fault) ==
    LET q == QGetLifestyleEntries(patientID, fault)
    IN  IF q.err # Nil
        THEN [err |-> Errorf("get lifestyle entries error", q.err), entries |-> <<>>]
        ELSE IF Len(q.rows) = 0
        THEN [err |-> ErrLifestyleEntryNotFound, entries |-> <<>>]
        ELSE [err |-> Nil,
              entries |-> [i \in 1..Len(q.rows) |-> convertDbLifestyleEntryToDomain(q.rows[i])]]

\* the lookup without its sql.ErrNoRows case
RepoGetLifestyleEntryNoMapping(entryID, fault) ==
    LET q == QGetLifestyleEntry(entryID, fault)
    IN  IF q.err # Nil
        THEN [err |-> Errorf("get lifestyle entry error", q.err), entry |-> NoEntry]
        ELSE [err |-> Nil, entry |-> convertDbLifestyleEntryToDomain(q.row)]

\* the lookup answering a missing row with a zero-valued entry and no error
RepoGetLifestyleEntryZeroValue(entryID, fault) ==
    LET q == QGetLifestyleEntry(entryID, fault)
    IN  IF q.err # Nil
        THEN IF ErrorsIs(q.err, SqlErrNoRows)
             THEN [err |-> Nil,
                   entry |-> [PatientLifestyleID |-> 0, PatientID |-> 0,
                              LifestyleFactor |-> "", Value |-> "",
                              StartDate |-> 0, EndDate |-> 0,
                              CreatedAt |-> 0, UpdatedAt |-> 0]]
             ELSE [err |-> Errorf("get lifestyle entry error", q.err), entry |-> NoEntry]
        ELSE [err |-> Nil, entry |-> convertDbLifestyleEntryToDomain(q.row)]

RepoGetLifestyleEntry(entryID, fault) ==
    LET q == QGetLifestyleEntry(entryID, fault)
    IN  IF q.err # Nil
        THEN IF ErrorsIs(q.err, SqlErrNoRows)
             THEN [err |-> ErrLifestyleEntryNotFound, entry |-> NoEntry]
             ELSE [err |-> Errorf("get lifestyle entry error", q.err), entry |-> NoEntry]
        ELSE [err |-> Nil, entry |-> convertDbLifestyleEntryToDomain(q.row)]

\* the adapter without its sql.ErrNoRows branch
RepoUpdateLifestyleEntryNoMapping(entryID, updatedEntry, fault) ==
    LET arg == [PatientLifestyleID |-> entryID,
                LifestyleFactor |-> updatedEntry.LifestyleFactor,
                Value |-> NullString(updatedEntry.Value),
                StartDate |-> NullTime(updatedEntry.StartDate),
                EndDate |-> NullTime(updatedEntry.EndDate)]
        q == QUpdateLifestyleEntry(arg, fault)
    IN  IF q.err # Nil
        THEN [err |-> Errorf("update lifestyle entry error", q.err), entry |-> NoEntry,
              tbl |-> q.tbl]
        ELSE [err |-> Nil, entry |-> convertDbLifestyleEntryToDomain(q.row), tbl |-> q.tbl]

RepoUpdateLifestyleEntry(entryID, updatedEntry, fault) ==
    LET arg == [PatientLifestyleID |-> entryID,
                LifestyleFactor |-> updatedEntry.LifestyleFactor,
                Value |-> NullString(updatedEntry.Value),
                StartDate |-> NullTime(updatedEntry.StartDate),
                EndDate |-> NullTime(updatedEntry.EndDate)]
        q == QUpdateLifestyleEntry(arg, fault)
    IN  IF q.err # Nil
        THEN IF ErrorsIs(q.err, SqlErrNoRows)
             THEN [err |-> ErrLifestyleEntryNotFound, entry |-> NoEntry, tbl |-> q.tbl]
             ELSE [err |-> Errorf("update lifestyle entry error", q.err), entry |-> NoEntry,
                   tbl |-> q.tbl]
        ELSE [err |-> Nil, entry |-> convertDbLifestyleEntryToDomain(q.row), tbl |-> q.tbl]

RepoDeleteLifestyleEntry(entryID, fault) ==
    LET q == QDeleteLifestyleEntry(entryID, fault)
    IN  IF q.err # Nil
        THEN IF ErrorsIs(q.err, SqlErrNoRows)
             THEN [err |-> ErrLifestyleEntryNotFound, tbl |-> q.tbl]
             ELSE [err |-> Errorf("delete lifestyle entry error", q.err), tbl |-> q.tbl]
        ELSE [err |-> Nil, tbl |-> q.tbl]

\* ---- table patients and PatientRepositoryImpl
\* (queries: patient.sql)
ScanInt(col) == [Int32 |-> IF col = <<>> THEN 0 ELSE col[1], Valid |-> col # <<>>]

\* SELECT ... FROM patients WHERE patient_id = $1
QGetPatient(id, fault) ==
    IF fault THEN [err |-> DriverError, row |-> NoRow]
    ELSE IF id \notin DOMAIN patients
    THEN [err |-> SqlErrNoRows, row |-> NoRow]
    ELSE [err |-> Nil, row |-> patients[id]]

convertDbPatientToDomain(dbPatient) ==
    [PatientID |-> dbPatient.patient_id,
     UserID |-> ScanInt(dbPatient.user_id).Int32,
     FullName |-> dbPatient.full_name,
     Age |-> ScanInt(dbPatient.age).Int32,
     DateOfBirth |-> dbPatient.date_of_birth,
     Sex |-> dbPatient.sex,
     PhoneNumber |-> ScanString(dbPatient.phone_number).String,
     EmailAddress |-> ScanString(dbPatient.email_address).String,
     PreferredCommunication |-> ScanString(dbPatient.preferred_communication).String,
     SocioeconomicStatus |-> ScanString(dbPatient.socioeconomic_status).String,
     GeographicLocation |-> ScanString(dbPatient.geographic_location).String,
     CreatedAt |-> ScanTime(dbPatient.created_at).Time,
     UpdatedAt |-> ScanTime(dbPatient.updated_at).Time]

RepoGetPatient(patientID, fault) ==
    LET q == QGetPatient(patientID, fault)
    IN  IF q.err # Nil
        THEN IF ErrorsIs(q.err, SqlErrNoRows)
             THEN [err |-> ErrPatientNotFound, patient |-> NoEntry]
             ELSE [err |-> Errorf("failed to get patient", q.err), patient |-> NoEntry]
        ELSE [err |-> Nil, patient |-> convertDbPatientToDomain(q.row)]

\* the labels of the enum types of the patients table
sex_enum == {"Male", "Female", "Other"}
preferred_communication_enum == {"Phone", "Email", "Text"}
socioeconomic_status_enum == {"Low", "Middle", "High", "Decline to Answer"}

\* the constraints of a patients row other than the key: enum labels
\* (22P02) and the UNIQUE email_address (23505)
PatientRowError(id, row) ==
    IF \/ row.sex \notin sex_enum
       \/ row.preferred_communication # <<>>
            /\ row.preferred_communication[1] \notin preferred_communication_enum
       \/ row.socioeconomic_status # <<>>
            /\ row.socioeconomic_status[1] \notin socioeconomic_status_enum
    THEN PgError("22P02")
    ELSE IF /\ row.email_address # <<>>
            /\ \E i \in DOMAIN patients \ {id} :
                   patients[i].email_address = row.email_address
    THEN PgError("23505")
    ELSE Nil

\* the rows of table Users, which this program reads and writes nowhere
Users == {5, 7, 9}

PatientColumns(id, arg, created) ==
    [patient_id |-> id,
     user_id |-> Column(arg.UserID.Int32, arg.UserID.Valid),
     full_name |-> arg.FullName,
     age |-> Column(arg.Age.Int32, arg.Age.Valid),
     date_of_birth |-> Date(arg.DateOfBirth),
     sex |-> arg.Sex,
     phone_number |-> Column(arg.PhoneNumber.String, arg.PhoneNumber.Valid),
     email_address |-> Column(arg.EmailAddress.String, arg.EmailAddress.Valid),
     preferred_communication |->
         Column(arg.PreferredCommunication.String, arg.PreferredCommunication.Valid),
     socioeconomic_status |->
         Column(arg.SocioeconomicStatus.String, arg.SocioeconomicStatus.Valid),
     geographic_location |->
         Column(arg.GeographicLocation.String, arg.GeographicLocation.Valid),
     created_at |-> created,
     updated_at |-> <<now>>]

\* INSERT INTO patients (...) VALUES (...) RETURNING ...
QCreatePatient(arg, fault) ==
    LET id == serial.patients
        row == PatientColumns(id, arg, <<now>>)
    IN  IF fault
        THEN [err |-> DriverError, row |-> NoRow, tbl |-> patients, seq |-> id]
        ELSE IF PatientRowError(id, row) # Nil
        THEN [err |-> PatientRowError(id, row), row |-> NoRow, tbl |-> patients,
              seq |-> id + 1]
        ELSE IF row.user_id # <<>> /\ row.user_id[1] \notin Users
        THEN [err |-> PgError("23503"), row |-> NoRow, tbl |-> patients, seq |-> id + 1]
        ELSE [err |-> Nil, row |-> row, tbl |-> patients @@ (id :> row), seq |-> id + 1]

\* UPDATE patients SET full_name = $2, ..., updated_at = NOW()
\* WHERE patient_id = $1 RETURNING ...
QUpdatePatient(arg, fault) ==
    LET id == arg.PatientID
    IN  IF fault THEN [err |-> DriverError, row |-> NoRow, tbl |-> patients]
        ELSE IF id \notin DOMAIN patients
        THEN [err |-> SqlErrNoRows, row |-> NoRow, tbl |-> patients]
        ELSE LET row == [PatientColumns(id, arg, patients[id].created_at) EXCEPT
                            !.user_id = patients[id].user_id]
             IN  IF PatientRowError(id, row) # Nil
                 THEN [err |-> PatientRowError(id, row), row |-> NoRow, tbl |-> patients]
                 ELSE [err |-> Nil, row |-> row, tbl |-> [patients EXCEPT ![id] = row]]

\* sql.NullInt32{Int32: int32(n), Valid: true}
NullInt32(n) == [Int32 |-> n, Valid |-> TRUE]

PatientParams(patient) ==
    [PatientID |-> patient.PatientID,
     UserID |-> NullInt32(patient.UserID),
     FullName |-> patient.FullName,
     Age |-> NullInt32(patient.Age),
     DateOfBirth |-> patient.DateOfBirth,
     Sex |-> patient.Sex,
     PhoneNumber |-> NullString(patient.PhoneNumber),
     EmailAddress |-> NullString(patient.EmailAddress),
     PreferredCommunication |-> NullString(patient.PreferredCommunication),
     SocioeconomicStatus |-> NullString(patient.SocioeconomicStatus),
     GeographicLocation |-> NullString(patient.GeographicLocation)]

RepoCreatePatient(patient, fault) ==
    LET q == QCreatePatient(PatientParams(patient), fault)
    IN  IF q.err # Nil
        THEN IF IsPgError(q.err, "23505")
             THEN [err |-> Errorf("patient with that email already exists", q.err),
                   patient |-> NoEntry, tbl |-> q.tbl, seq |-> q.seq]
             ELSE IF IsPgError(q.err, "23503")
             THEN [err |-> ErrPatientNotFound,
                   patient |-> NoEntry, tbl |-> q.tbl, seq |-> q.seq]
             ELSE [err |-> Errorf("failed to create patient", q.err),
                   patient |-> NoEntry, tbl |-> q.tbl, seq |-> q.seq]
        ELSE [err |-> Nil, patient |-> convertDbPatientToDomain(q.row),
              tbl |-> q.tbl, seq |-> q.seq]

RepoUpdatePatient(patientID, patient, fault) ==
    LET q == QUpdatePatient([PatientParams(patient) EXCEPT !.PatientID = patientID], fault)
    IN  IF q.err # Nil
        THEN IF IsPgError(q.err, "23505")
             THEN [err |-> Errorf("email address already in use", q.err),
                   patient |-> NoEntry, tbl |-> q.tbl]
             ELSE [err |-> Errorf("failed to update patient", q.err),
                   patient |-> NoEntry, tbl |-> q.tbl]
        ELSE [err |-> Nil, patient |-> convertDbPatientToDomain(q.row), tbl |-> q.tbl]

\* ---- table patient_medical_history (queries: medical_history.sql)

QCreateMedicalHistoryEntry(arg, fault) ==
    IF fault
    THEN [err |-> DriverError, row |-> NoRow, tbl |-> patient_medical_history,
          seq |-> serial.patient_medical_history]
    ELSE IF arg.PatientID.Valid /\ arg.PatientID.Int32 \notin DOMAIN patients
    THEN [err |-> PgError("23503"), row |-> NoRow, tbl |-> patient_medical_history,
          seq |-> serial.patient_medical_history + 1]
    ELSE LET id == serial.patient_medical_history
             row == [patient_medical_history_id |-> id,
                     patient_id |-> Column(arg.PatientID.Int32, arg.PatientID.Valid),
                     condition |-> arg.Condition,
                     diagnosis_date |-> Column(Date(arg.DiagnosisDate.Time), arg.DiagnosisDate.Valid),
                     status |-> Column(arg.Status.String, arg.Status.Valid),
                     details |-> Column(arg.Details.String, arg.Details.Valid),
                     created_at |-> <<now>>,
                     updated_at |-> <<now>>]
         IN  [err |-> Nil, row |-> row, tbl |-> patient_medical_history @@ (id :> row),
              seq |-> id + 1]

QGetMedicalHistoryEntries(patientID, fault) ==
    IF fault THEN [err |-> DriverError, rows |-> <<>>]
    ELSE LET ids == {i \in DOMAIN patient_medical_history :
                         patient_medical_history[i].patient_id = <<patientID>>}
             RECURSIVE InOrder(_)
             InOrder(S) == IF S = {} THEN <<>>
                           ELSE LET m == CHOOSE x \in S : \A y \in S : x <= y
                                IN  <<patient_medical_history[m]>> \o InOrder(S \ {m})
         IN  [err |-> Nil, rows |-> InOrder(ids)]

QGetMedicalHistoryEntry(id, fault) ==
    IF fault THEN [err |-> DriverError, row |-> NoRow]
    ELSE IF id \notin DOMAIN patient_medical_history
    THEN [err |-> SqlErrNoRows, row |-> NoRow]
    ELSE [err |-> Nil, row |-> patient_medical_history[id]]

\* the statement with patient_id among the columns it sets, from a
\* parameter the repository leaves unset
QUpdateMedicalHistoryEntrySetsOwner(arg, fault) ==
    LET id == arg.PatientMedicalHistoryID
    IN  IF fault THEN [err |-> DriverError, row |-> NoRow, tbl |-> patient_medical_history]
        ELSE IF id \notin DOMAIN patient_medical_history
        THEN [err |-> SqlErrNoRows, row |-> NoRow, tbl |-> patient_medical_history]
        ELSE LET row == [patient_medical_history[id] EXCEPT
                            !.patient_id = <<>>,
                            !.condition = arg.Condition,
                            !.diagnosis_date =
                                Column(Date(arg.DiagnosisDate.Time), arg.DiagnosisDate.Valid),
                            !.status = Column(arg.Status.String, arg.Status.Valid),
                            !.details = Column(arg.Details.String, arg.Details.Valid),
                            !.updated_at = <<now>>]
             IN  [err |-> Nil, row |-> row,
                  tbl |-> [patient_medical_history EXCEPT ![id] = row]]

\* UPDATE patient_medical_history SET condition, diagnosis_date, status,
\* details, updated_at = NOW() WHERE patient_medical_history_id = $1 RETURNING
QUpdateMedicalHistoryEntry(arg, fault) ==
    LET id == arg.PatientMedicalHistoryID
    IN  IF fault THEN [err |-> DriverError, row |-> NoRow, tbl |-> patient_medical_history]
        ELSE IF id \notin DOMAIN patient_medical_history
        THEN [err |-> SqlErrNoRows, row |-> NoRow, tbl |-> patient_medical_history]
        ELSE LET row == [patient_medical_history[id] EXCEPT
                            !.condition = arg.Condition,
                            !.diagnosis_date =
                                Column(Date(arg.DiagnosisDate.Time), arg.DiagnosisDate.Valid),
                            !.status = Column(arg.Status.String, arg.Status.Valid),
                            !.details = Column(arg.Details.String, arg.Details.Valid),
                            !.updated_at = <<now>>]
             IN  [err |-> Nil, row |-> row,
                  tbl |-> [patient_medical_history EXCEPT ![id] = row]]

\* DELETE FROM patient_medical_history WHERE patient_medical_history_id = $1
\* (:exec, as for patient_lifestyle)
QDeleteMedicalHistoryEntry(id, fault) ==
    IF fault THEN [err |-> DriverError, tbl |-> patient_medical_history]
    ELSE [err |-> Nil,
          tbl |-> [i \in DOMAIN patient_medical_history \ {id} |->
                      patient_medical_history[i]]]

\* ---- MedicalHistoryRepositoryImpl (postgres)
convertDbMedicalHistoryEntryToDomain(dbEntry) ==
    [PatientMedicalHistoryID |-> dbEntry.patient_medical_history_id,
     PatientID |-> ScanInt(dbEntry.patient_id).Int32,
     Condition |-> dbEntry.condition,
     DiagnosisDate |-> ScanTime(dbEntry.diagnosis_date).Time,
     Status |-> ScanString(dbEntry.status).String,
     Details |-> ScanString(dbEntry.details).String,
     CreatedAt |-> ScanTime(dbEntry.created_at).Time,
     UpdatedAt |-> ScanTime(dbEntry.updated_at).Time]

RepoCreateMedicalHistoryEntry(entry, fault) ==
    LET arg == [PatientID |-> [Int32 |-> entry.PatientID, Valid |-> TRUE],
                Condition |-> entry.Condition,
                DiagnosisDate |-> NullTime(entry.DiagnosisDate),
                Status |-> NullString(entry.Status),
                Details |-> NullString(entry.Details)]
        q == QCreateMedicalHistoryEntry(arg, fault)
    IN  IF q.err # Nil
        THEN IF IsPgError(q.err, "23503")
             THEN [err |-> ErrPatientNotFound, entry |-> NoEntry, tbl |-> q.tbl, seq |-> q.seq]
             ELSE [err |-> Errorf("failed to create medical history entry", q.err),
                   entry |-> NoEntry, tbl |-> q.tbl, seq |-> q.seq]
        ELSE [err |-> Nil, entry |-> convertDbMedicalHistoryEntryToDomain(q.row),
              tbl |-> q.tbl, seq |-> q.seq]

RepoGetMedicalHistoryEntries(patientID, fault) ==
    LET q == QGetMedicalHistoryEntries(patientID, fault)
    IN  IF q.err # Nil
        THEN [err |-> Errorf("failed to get medical history entries", q.err),
              entries |-> <<>>]
        ELSE IF Len(q.rows) = 0
        THEN [err |-> ErrMedicalHistoryEntryNotFound, entries |-> <<>>]
        ELSE [err |-> Nil,
              entries |-> [i \in 1..Len(q.rows) |->
                              convertDbMedicalHistoryEntryToDomain(q.rows[i])]]

RepoGetMedicalHistoryEntry(entryID, fault) ==
    LET q == QGetMedicalHistoryEntry(entryID, fault)
    IN  IF q.err # Nil
        THEN IF ErrorsIs(q.err, SqlErrNoRows)
             THEN [err |-> ErrMedicalHistoryEntryNotFound, entry |-> NoEntry]
             ELSE [err |-> Errorf("failed to get medical history entry", q.err),
                   entry |-> NoEntry]
        ELSE [err |-> Nil, entry |-> convertDbMedicalHistoryEntryToDomain(q.row)]

RepoUpdateMedicalHistoryEntry(entryID, entry, fault) ==
    LET arg == [PatientMedicalHistoryID |-> entryID,
                Condition |-> entry.Condition,
                DiagnosisDate |-> NullTime(entry.DiagnosisDate),
                Status |-> NullString(entry.Status),
                Details |-> NullString(entry.Details)]
        q == QUpdateMedicalHistoryEntry(arg, fault)
    IN  IF q.err # Nil
        THEN IF ErrorsIs(q.err, SqlErrNoRows)
             THEN [err |-> ErrMedicalHistoryEntryNotFound, entry |-> NoEntry, tbl |-> q.tbl]
             ELSE IF IsPgError(q.err, "23503")
             THEN [err |-> ErrPatientNotFound, entry |-> NoEntry, tbl |-> q.tbl]
             ELSE [err |-> Errorf("failed to update medical history entry", q.err),
                   entry |-> NoEntry, tbl |-> q.tbl]
        ELSE [err |-> Nil, entry |-> convertDbMedicalHistoryEntryToDomain(q.row),
              tbl |-> q.tbl]

RepoDeleteMedicalHistoryEntry(entryID, fault) ==
    LET q == QDeleteMedicalHistoryEntry(entryID, fault)
    IN  IF q.err # Nil
        THEN IF ErrorsIs(q.err, SqlErrNoRows)
             THEN [err |-> ErrMedicalHistoryEntryNotFound, tbl |-> q.tbl]
             ELSE [err |-> Errorf("failed to delete medical history entry", q.err),
                   tbl |-> q.tbl]
        ELSE [err |-> Nil, tbl |-> q.tbl]

\* ------------------------------------------------------------- requests
\* rq[w] is the request worker w is handling: the service method (op), its
\* arguments (id, in, caller), what the identity provider answers during it
\* (idp), whether the database failed its last statement (fault), what it
\* loaded and merged, the calls it has made to the repositories and to the
\* gate, and its outcome (err, out).
Workers == DOMAIN rq

Idle == [pc |-> "idle", op |-> "", id |-> 0, in |-> <<>>, caller |-> "",
         idp |-> "", fault |-> FALSE,
         loaded |-> NoEntry, merged |-> NoEntry, calls |-> <<>>,
         err |-> Nil, out |-> <<>>]

Call(fn, arg) == [fn |-> fn, arg |-> arg]

\* the handler returned (err, out)
Done(r, calls, err, out) ==
    [r EXCEPT !.pc = "done", !.calls = calls, !.err = err, !.out = out]

\* the handler goes on to its next statement
Goto(r, pc, calls) == [r EXCEPT !.pc = pc, !.calls = calls]

Started(op, id, in, caller, idp, fault) ==
    [Idle EXCEPT !.op = op, !.id = id, !.in = in, !.caller = caller,
                 !.idp = idp, !.fault = fault]

\* ------------------------------------------------------ LifestyleService

\* CreateLifestyleEntry without the lookup of the owning patient
CreateLifestyleEntrySkipOwner(w, patientID, req, fault) ==
    /\ rq[w].pc = "idle"
    /\ service = "LifestyleService"
    /\ LET r == Started("CreateLifestyleEntry", patientID, req, "", "", fault)
       IN  rq' = [rq EXCEPT ![w] =
               IF ValidateStruct(CreateLifestyleRequestRules, req, now) # <<>>
               THEN Done(r, <<>>, ErrInvalidInput, NoEntry)
               ELSE Goto([r EXCEPT !.merged =
                              [PatientLifestyleID |-> 0,
                               PatientID |-> patientID,
                               LifestyleFactor |-> req.LifestyleFactor,
                               Value |-> req.Value,
                               StartDate |-> req.StartDate,
                               EndDate |-> req.EndDate,
                               CreatedAt |-> 0,
                               UpdatedAt |-> 0]],
                         "insert", <<>>)]
    /\ UNCHANGED <<patients, patient_lifestyle, patient_medical_history, serial, now,
                   service>>

\* CreateLifestyleEntry up to the patient lookup
CreateLifestyleEntry(w, patientID, req, fault) ==
    /\ rq[w].pc = "idle"
    /\ service = "LifestyleService"
    /\ LET r == Started("CreateLifestyleEntry", patientID, req, "", "", fault)
           p == RepoGetPatient(patientID, fault)
           getPatient == <<Call("patientRepo.GetPatient", patientID)>>
       IN  rq' = [rq EXCEPT ![w] =
               IF ValidateStruct(CreateLifestyleRequestRules, req, now) # <<>>
               THEN Done(r, <<>>, ErrInvalidInput, NoEntry)
               ELSE IF p.err # Nil
               THEN IF ErrorsIs(p.err, ErrPatientNotFound)
                    THEN Done(r, getPatient, ErrPatientNotFound, NoEntry)
                    ELSE Done(r, getPatient,
                              Errorf("failed to check patient existence", p.err), NoEntry)
               ELSE Goto([r EXCEPT !.merged =
                              [PatientLifestyleID |-> 0,
                               PatientID |-> patientID,
                               LifestyleFactor |-> req.LifestyleFactor,
                               Value |-> req.Value,
                               StartDate |-> req.StartDate,
                               EndDate |-> req.EndDate,
                               CreatedAt |-> 0,
                               UpdatedAt |-> 0]],
                         "insert", getPatient)]
    /\ UNCHANGED <<patients, patient_lifestyle, patient_medical_history, serial, now,
                   service>>

\* CreateLifestyleEntry from the INSERT on
CreateLifestyleEntryInsert(w, fault) ==
    /\ rq[w].pc = "insert"
    /\ rq[w].op = "CreateLifestyleEntry"
    /\ CanWrite
    /\ serial.patient_lifestyle <= MaxSerial
    /\ LET r == [rq[w] EXCEPT !.fault = fault]
           c == RepoCreateLifestyleEntry(r.merged, fault)
           calls == Append(r.calls, Call("lifestyleRepo.CreateLifestyleEntry", r.merged))
       IN  /\ rq' = [rq EXCEPT ![w] =
                  IF c.err # Nil
                  THEN Done(r, calls, Errorf("create lifestyle entry error", c.err), NoEntry)
                  ELSE Done(r, calls, Nil, c.entry)]
           /\ patient_lifestyle' = c.tbl
           /\ serial' = [serial EXCEPT !.patient_lifestyle = c.seq]
    /\ now' = now + 1
    /\ UNCHANGED <<patients, patient_medical_history, service>>

\* GetLifestyleEntries up to the patient lookup
GetLifestyleEntries(w, patientID, fault) ==
    /\ rq[w].pc = "idle"
    /\ service = "LifestyleService"
    /\ LET r == Started("GetLifestyleEntries", patientID, <<>>, "", "", fault)
           p == RepoGetPatient(patientID, fault)
           getPatient == <<Call("patientRepo.GetPatient", patientID)>>
       IN  rq' = [rq EXCEPT ![w] =
               IF p.err # Nil
               THEN IF ErrorsIs(p.err, ErrPatientNotFound)
                    THEN Done(r, getPatient, ErrPatientNotFound, <<>>)
                    ELSE Done(r, getPatient,
                              Errorf("failed to check patient existence", p.err), <<>>)
               ELSE Goto(r, "select", getPatient)]
    /\ UNCHANGED <<patients, patient_lifestyle, patient_medical_history, serial, now,
                   service>>

\* GetLifestyleEntries from the SELECT on
GetLifestyleEntriesSelect(w, fault) ==
    /\ rq[w].pc = "select"
    /\ rq[w].op = "GetLifestyleEntries"
    /\ LET r == [rq[w] EXCEPT !.fault = fault]
           g == RepoGetLifestyleEntries(r.id, fault)
           calls == Append(r.calls, Call("lifestyleRepo.GetLifestyleEntries", r.id))
       IN  rq' = [rq EXCEPT ![w] =
               IF g.err # Nil
               THEN Done(r, calls, Errorf("get lifestyle entries error", g.err), <<>>)
               ELSE IF Len(g.entries) = 0
               THEN Done(r, calls, ErrLifestyleEntryNotFound, <<>>)
               ELSE Done(r, calls, Nil, g.entries)]
    /\ UNCHANGED <<patients, patient_lifestyle, patient_medical_history, serial, now,
                   service>>

GetLifestyleEntry(w, entryID, fault) ==
    /\ rq[w].pc = "idle"
    /\ service = "LifestyleService"
    /\ LET r == Started("GetLifestyleEntry", entryID, <<>>, "", "", fault)
           g == RepoGetLifestyleEntry(entryID, fault)
           calls == <<Call("lifestyleRepo.GetLifestyleEntry", entryID)>>
       IN  rq' = [rq EXCEPT ![w] =
               IF g.err # Nil
               THEN IF ErrorsIs(g.err, ErrLifestyleEntryNotFound)
                    THEN Done(r, calls, ErrLifestyleEntryNotFound, NoEntry)
                    ELSE Done(r, calls, Errorf("get lifestyle entry error", g.err), NoEntry)
               ELSE Done(r, calls, Nil, g.entry)]
    /\ UNCHANGED <<patients, patient_lifestyle, patient_medical_history, serial, now,
                   service>>

\* a merge that replaces the record by the request
MergeLifestyleReplace(existingEntry, req) ==
    [existingEntry EXCEPT
        !.LifestyleFactor = req.LifestyleFactor,
        !.Value = req.Value,
        !.StartDate = req.StartDate,
        !.EndDate = req.EndDate]

\* "Update only provided fields" (UpdateLifestyleEntry)
MergeLifestyle(existingEntry, req) ==
    [existingEntry EXCEPT
        !.LifestyleFactor = IF req.LifestyleFactor # "" THEN req.LifestyleFactor ELSE @,
        !.Value = IF req.Value # "" THEN req.Value ELSE @,
        !.StartDate = IF ~IsZero(req.StartDate) THEN req.StartDate ELSE @,
        !.EndDate = IF ~IsZero(req.EndDate) THEN req.EndDate ELSE @]

\* UpdateLifestyleEntry up to the merge: validation, load, gate, merge
UpdateLifestyleEntry(w, entryID, req, caller, idp, fault) ==
    /\ rq[w].pc = "idle"
    /\ service = "LifestyleService"
    /\ LET r == Started("UpdateLifestyleEntry", entryID, req, caller, idp, fault)
           g == RepoGetLifestyleEntry(entryID, fault)
           get == <<Call("lifestyleRepo.GetLifestyleEntry", entryID)>>
           gate == Append(get, Call("authorize", g.entry.PatientID))
       IN  rq' = [rq EXCEPT ![w] =
               IF ValidateStruct(UpdateLifestyleRequestRules, req, now) # <<>>
               THEN Done(r, <<>>, ErrInvalidInput, NoEntry)
               ELSE IF g.err # Nil
               THEN IF ErrorsIs(g.err, ErrLifestyleEntryNotFound)
                    THEN Done(r, get, ErrLifestyleEntryNotFound, NoEntry)
                    ELSE Done(r, get,
                              Errorf("failed to retrieve existing entry", g.err), NoEntry)
               ELSE IF ~AuthorizeFn(caller, g.entry.PatientID, idp)
               THEN Done([r EXCEPT !.loaded = g.entry], gate, ErrForbidden, NoEntry)
               ELSE Goto([r EXCEPT !.loaded = g.entry,
                                   !.merged = MergeLifestyle(g.entry, req)],
                         "update", gate)]
    /\ UNCHANGED <<patients, patient_lifestyle, patient_medical_history, serial, now,
                   service>>

\* UpdateLifestyleEntry from the UPDATE on
UpdateLifestyleEntryUpdate(w, fault) ==
    /\ rq[w].pc = "update"
    /\ rq[w].op = "UpdateLifestyleEntry"
    /\ CanWrite
    /\ LET r == [rq[w] EXCEPT !.fault = fault]
           u == RepoUpdateLifestyleEntry(r.id, r.merged, fault)
           calls == Append(r.calls, Call("lifestyleRepo.UpdateLifestyleEntry", r.id))
       IN  /\ rq' = [rq EXCEPT ![w] =
                  IF u.err # Nil
                  THEN IF ErrorsIs(u.err, ErrLifestyleEntryNotFound)
                       THEN Done(r, calls, ErrLifestyleEntryNotFound, NoEntry)
                       ELSE Done(r, calls,
                                 Errorf("update lifestyle entry error", u.err), NoEntry)
                  ELSE Done(r, calls, Nil, u.entry)]
           /\ patient_lifestyle' = u.tbl
    /\ now' = now + 1
    /\ UNCHANGED <<patients, patient_medical_history, serial, service>>

\* DeleteLifestyleEntry up to the gate
DeleteLifestyleEntry(w, entryID, caller, idp, fault) ==
    /\ rq[w].pc = "idle"
    /\ service = "LifestyleService"
    /\ LET r == Started("DeleteLifestyleEntry", entryID, <<>>, caller, idp, fault)
           g == RepoGetLifestyleEntry(entryID, fault)
           get == <<Call("lifestyleRepo.GetLifestyleEntry", entryID)>>
           gate == Append(get, Call("authorize", g.entry.PatientID))
       IN  rq' = [rq EXCEPT ![w] =
               IF g.err # Nil
               THEN IF ErrorsIs(g.err, ErrLifestyleEntryNotFound)
                    THEN Done(r, get, ErrLifestyleEntryNotFound, NoEntry)
                    ELSE Done(r, get,
                              Errorf("failed to retrieve entry before deleting", g.err),
                              NoEntry)
               ELSE IF ~AuthorizeFn(caller, g.entry.PatientID, idp)
               THEN Done([r EXCEPT !.loaded = g.entry], gate, ErrForbidden, NoEntry)
               ELSE Goto([r EXCEPT !.loaded = g.entry], "delete", gate)]
    /\ UNCHANGED <<patients, patient_lifestyle, patient_medical_history, serial, now,
                   service>>

\* DeleteLifestyleEntry from the DELETE on
DeleteLifestyleEntryDelete(w, fault) ==
    /\ rq[w].pc = "delete"
    /\ rq[w].op = "DeleteLifestyleEntry"
    /\ CanWrite
    /\ LET r == [rq[w] EXCEPT !.fault = fault]
           d == RepoDeleteLifestyleEntry(r.id, fault)
           calls == Append(r.calls, Call("lifestyleRepo.DeleteLifestyleEntry", r.id))
       IN  /\ rq' = [rq EXCEPT ![w] =
                  IF d.err # Nil
                  THEN IF ErrorsIs(d.err, ErrLifestyleEntryNotFound)
                       THEN Done(r, calls, ErrLifestyleEntryNotFound, NoEntry)
                       ELSE Done(r, calls,
                                 Errorf("delete lifestyle entry error", d.err), NoEntry)
                  ELSE Done(r, calls, Nil, NoEntry)]
           /\ patient_lifestyle' = d.tbl
    /\ now' = now + 1
    /\ UNCHANGED <<patients, patient_medical_history, serial, service>>

\* the response has been written; the worker takes the next request
Return(w) ==
    /\ rq[w].pc = "done"
    /\ rq' = [rq EXCEPT ![w] = Idle]
    /\ UNCHANGED <<patients, patient_lifestyle, patient_medical_history, serial, now,
                   service>>

\* ------------------------------------------------------------ authClient

\* one call of authClient.Authorize; the log holds its profile lookups
AuthorizeCall(w, userID, patientID, idp) ==
    /\ rq[w].pc = "idle"
    /\ service = "authClient"
    /\ LET r == Started("Authorize", patientID, <<>>, userID, idp, FALSE)
           a == Authorize(userID, patientID, idp)
       IN  rq' = [rq EXCEPT ![w] =
               Done(r, [i \in 1..a.lookups |-> Call("clerk.User.GetUser", userID)],
                    a.err, <<a.allowed>>)]
    /\ UNCHANGED <<patients, patient_lifestyle, patient_medical_history, serial, now,
                   service>>

\* ------------------------------------------------- MedicalHistoryService

\* CreateMedicalHistoryEntry up to the patient lookup
CreateMedicalHistoryEntry(w, patientID, req, fault) ==
    /\ rq[w].pc = "idle"
    /\ service = "MedicalHistoryService"
    /\ LET r == Started("CreateMedicalHistoryEntry", patientID, req, "", "", fault)
           validationErrors == ValidateStruct(CreateMedicalHistoryRequestRules, req, now)
           p == RepoGetPatient(patientID, fault)
           getPatient == <<Call("patientRepo.GetPatient", patientID)>>
       IN  rq' = [rq EXCEPT ![w] =
               IF validationErrors # <<>>
               THEN Done(r, <<>>,
                         ValidationError("INVALID_MEDICAL_HISTORY_DATA",
                                         ErrorDetails(validationErrors)), NoEntry)
               ELSE IF p.err # Nil
               THEN IF ErrorsIs(p.err, ErrPatientNotFound)
                    THEN Done(r, getPatient, ErrPatientNotFound, NoEntry)
                    ELSE Done(r, getPatient,
                              Errorf("failed to check patient existence", p.err), NoEntry)
               ELSE Goto([r EXCEPT !.merged =
                              [PatientMedicalHistoryID |-> 0,
                               PatientID |-> patientID,
                               Condition |-> req.Condition,
                               DiagnosisDate |-> req.DiagnosisDate,
                               Status |-> req.Status,
                               Details |-> req.Details,
                               CreatedAt |-> 0,
                               UpdatedAt |-> 0]],
                         "insert", getPatient)]
    /\ UNCHANGED <<patients, patient_lifestyle, patient_medical_history, serial, now,
                   service>>

\* CreateMedicalHistoryEntry from the INSERT on
CreateMedicalHistoryEntryInsert(w, fault) ==
    /\ rq[w].pc = "insert"
    /\ rq[w].op = "CreateMedicalHistoryEntry"
    /\ CanWrite
    /\ serial.patient_medical_history <= MaxSerial
    /\ LET r == [rq[w] EXCEPT !.fault = fault]
           c == RepoCreateMedicalHistoryEntry(r.merged, fault)
           calls == Append(r.calls,
                           Call("medicalHistoryRepo.CreateMedicalHistoryEntry", r.merged))
       IN  /\ rq' = [rq EXCEPT ![w] =
                  IF c.err # Nil
                  THEN Done(r, calls,
                            Errorf("create medical history entry error", c.err), NoEntry)
                  ELSE Done(r, calls, Nil, c.entry)]
           /\ patient_medical_history' = c.tbl
           /\ serial' = [serial EXCEPT !.patient_medical_history = c.seq]
    /\ now' = now + 1
    /\ UNCHANGED <<patients, patient_lifestyle, service>>

\* GetMedicalHistoryEntries up to the patient lookup
GetMedicalHistoryEntries(w, patientID, fault) ==
    /\ rq[w].pc = "idle"
    /\ service = "MedicalHistoryService"
    /\ LET r == Started("GetMedicalHistoryEntries", patientID, <<>>, "", "", fault)
           p == RepoGetPatient(patientID, fault)
           getPatient == <<Call("patientRepo.GetPatient", patientID)>>
       IN  rq' = [rq EXCEPT ![w] =
               IF p.err # Nil
               THEN IF ErrorsIs(p.err, ErrPatientNotFound)
                    THEN Done(r, getPatient, ErrPatientNotFound, <<>>)
                    ELSE Done(r, getPatient,
                              Errorf("failed to check patient existence", p.err), <<>>)
               ELSE Goto(r, "select", getPatient)]
    /\ UNCHANGED <<patients, patient_lifestyle, patient_medical_history, serial, now,
                   service>>

\* GetMedicalHistoryEntries from the SELECT on
GetMedicalHistoryEntriesSelect(w, fault) ==
    /\ rq[w].pc = "select"
    /\ rq[w].op = "GetMedicalHistoryEntries"
    /\ LET r == [rq[w] EXCEPT !.fault = fault]
           g == RepoGetMedicalHistoryEntries(r.id, fault)
           calls == Append(r.calls, Call("medicalHistoryRepo.GetMedicalHistoryEntries", r.id))
       IN  rq' = [rq EXCEPT ![w] =
               IF g.err # Nil
               THEN IF ErrorsIs(g.err, ErrMedicalHistoryEntryNotFound)
                    THEN Done(r, calls, ErrMedicalHistoryEntryNotFound, <<>>)
                    ELSE Done(r, calls,
                              Errorf("get medical history entries error", g.err), <<>>)
               ELSE Done(r, calls, Nil, g.entries)]
    /\ UNCHANGED <<patients, patient_lifestyle, patient_medical_history, serial, now,
                   service>>

GetMedicalHistoryEntry(w, entryID, fault) ==
    /\ rq[w].pc = "idle"
    /\ service = "MedicalHistoryService"
    /\ LET r == Started("GetMedicalHistoryEntry", entryID, <<>>, "", "", fault)
           g == RepoGetMedicalHistoryEntry(entryID, fault)
           calls == <<Call("medicalHistoryRepo.GetMedicalHistoryEntry", entryID)>>
       IN  rq' = [rq EXCEPT ![w] =
               IF g.err # Nil
               THEN IF ErrorsIs(g.err, ErrMedicalHistoryEntryNotFound)
                    THEN Done(r, calls, ErrMedicalHistoryEntryNotFound, NoEntry)
                    ELSE Done(r, calls,
                              Errorf("get medical history entry error", g.err), NoEntry)
               ELSE Done(r, calls, Nil, g.entry)]
    /\ UNCHANGED <<patients, patient_lifestyle, patient_medical_history, serial, now,
                   service>>

\* the merge that copies the request's four fields whether set or not
MergeMedicalHistoryReplace(existingEntry, req) ==
    [existingEntry EXCEPT
        !.Condition = req.Condition,
        !.DiagnosisDate = req.DiagnosisDate,
        !.Status = req.Status,
        !.Details = req.Details]

\* "Update only the fields provided in the request" (UpdateMedicalHistoryEntry)
MergeMedicalHistory(existingEntry, req) ==
    [existingEntry EXCEPT
        !.Condition = IF req.Condition # "" THEN req.Condition ELSE @,
        !.DiagnosisDate = IF ~IsZero(req.DiagnosisDate) THEN req.DiagnosisDate ELSE @,
        !.Status = IF req.Status # "" THEN req.Status ELSE @,
        !.Details = IF req.Details # "" THEN req.Details ELSE @]

\* UpdateMedicalHistoryEntry up to the merge: validation, load, gate, merge
UpdateMedicalHistoryEntry(w, entryID, req, caller, idp, fault) ==
    /\ rq[w].pc = "idle"
    /\ service = "MedicalHistoryService"
    /\ LET r == Started("UpdateMedicalHistoryEntry", entryID, req, caller, idp, fault)
           validationErrors == ValidateStruct(UpdateMedicalHistoryRequestRules, req, now)
           g == RepoGetMedicalHistoryEntry(entryID, fault)
           get == <<Call("medicalHistoryRepo.GetMedicalHistoryEntry", entryID)>>
           gate == Append(get, Call("authorize", g.entry.PatientID))
       IN  rq' = [rq EXCEPT ![w] =
               IF validationErrors # <<>>
               THEN Done(r, <<>>,
                         ValidationError("INVALID_MEDICAL_HISTORY_DATA",
                                         ErrorDetails(validationErrors)), NoEntry)
               ELSE IF g.err # Nil
               THEN IF ErrorsIs(g.err, ErrMedicalHistoryEntryNotFound)
                    THEN Done(r, get, ErrMedicalHistoryEntryNotFound, NoEntry)
                    ELSE Done(r, get,
                              Errorf("failed to retrieve existing medical history entry",
                                     g.err), NoEntry)
               ELSE IF ~AuthorizeFn(caller, g.entry.PatientID, idp)
               THEN Done([r EXCEPT !.loaded = g.entry], gate, ErrForbidden, NoEntry)
               ELSE Goto([r EXCEPT !.loaded = g.entry,
                                   !.merged = MergeMedicalHistory(g.entry, req)],
                         "update", gate)]
    /\ UNCHANGED <<patients, patient_lifestyle, patient_medical_history, serial, now,
                   service>>

\* UpdateMedicalHistoryEntry from the UPDATE on
UpdateMedicalHistoryEntryUpdate(w, fault) ==
    /\ rq[w].pc = "update"
    /\ rq[w].op = "UpdateMedicalHistoryEntry"
    /\ CanWrite
    /\ LET r == [rq[w] EXCEPT !.fault = fault]
           u == RepoUpdateMedicalHistoryEntry(r.id, r.merged, fault)
           calls == Append(r.calls,
                           Call("medicalHistoryRepo.UpdateMedicalHistoryEntry", r.id))
       IN  /\ rq' = [rq EXCEPT ![w] =
                  IF u.err # Nil
                  THEN Done(r, calls,
                            Errorf("update medical history entry error", u.err), NoEntry)
                  ELSE Done(r, calls, Nil, u.entry)]
           /\ patient_medical_history' = u.tbl
    /\ now' = now + 1
    /\ UNCHANGED <<patients, patient_lifestyle, serial, service>>

\* DeleteMedicalHistoryEntry up to the gate
DeleteMedicalHistoryEntry(w, entryID, caller, idp, fault) ==
    /\ rq[w].pc = "idle"
    /\ service = "MedicalHistoryService"
    /\ LET r == Started("DeleteMedicalHistoryEntry", entryID, <<>>, caller, idp, fault)
           g == RepoGetMedicalHistoryEntry(entryID, fault)
           get == <<Call("medicalHistoryRepo.GetMedicalHistoryEntry", entryID)>>
           gate == Append(get, Call("authorize", g.entry.PatientID))
       IN  rq' = [rq EXCEPT ![w] =
               IF g.err # Nil
               THEN IF ErrorsIs(g.err, ErrMedicalHistoryEntryNotFound)
                    THEN Done(r, get, ErrMedicalHistoryEntryNotFound, NoEntry)
                    ELSE Done(r, get,
                              Errorf("failed to retrieve medical history entry before deletion",
                                     g.err), NoEntry)
               ELSE IF ~AuthorizeFn(caller, g.entry.PatientID, idp)
               THEN Done([r EXCEPT !.loaded = g.entry], gate, ErrForbidden, NoEntry)
               ELSE Goto([r EXCEPT !.loaded = g.entry], "delete", gate)]
    /\ UNCHANGED <<patients, patient_lifestyle, patient_medical_history, serial, now,
                   service>>

\* DeleteMedicalHistoryEntry from the DELETE on
DeleteMedicalHistoryEntryDelete(w, fault) ==
    /\ rq[w].pc = "delete"
    /\ rq[w].op = "DeleteMedicalHistoryEntry"
    /\ CanWrite
    /\ LET r == [rq[w] EXCEPT !.fault = fault]
           d == RepoDeleteMedicalHistoryEntry(r.id, fault)
           calls == Append(r.calls,
                           Call("medicalHistoryRepo.DeleteMedicalHistoryEntry", r.id))
       IN  /\ rq' = [rq EXCEPT ![w] =
                  IF d.err # Nil
                  THEN IF ErrorsIs(d.err, ErrMedicalHistoryEntryNotFound)
                       THEN Done(r, calls, ErrMedicalHistoryEntryNotFound, NoEntry)
                       ELSE Done(r, calls,
                                 Errorf("delete medical history entry error", d.err),
                                 NoEntry)
                  ELSE Done(r, calls, Nil, NoEntry)]
           /\ patient_medical_history' = d.tbl
    /\ now' = now + 1
    /\ UNCHANGED <<patients, patient_lifestyle, serial, service>>

\* ---------------------------------------------------------- PatientService

\* "Validate Age and DateOfBirth consistency"
AgeMatchesDateOfBirth(age, dateOfBirth, t) ==
    LET expectedAge == Year(t) - Year(dateOfBirth)
                         - (IF YearDay(t) < YearDay(dateOfBirth) THEN 1 ELSE 0)
    IN  (age # 0 /\ ~IsZero(dateOfBirth)) => expectedAge = age

\* CreatePatient: validation, the consistency check and the INSERT
CreatePatient(w, req, fault) ==
    /\ rq[w].pc = "idle"
    /\ service = "PatientService"
    /\ LET r == Started("CreatePatient", 0, req, "", "", fault)
           validationErrors == ValidateStruct(CreatePatientRequestRules, req, now)
           patient == [PatientID |-> 0,
                       UserID |-> req.UserID,
                       FullName |-> req.FullName,
                       Age |-> req.Age,
                       DateOfBirth |-> req.DateOfBirth,
                       Sex |-> req.Sex,
                       PhoneNumber |-> req.PhoneNumber,
                       EmailAddress |-> req.EmailAddress,
                       PreferredCommunication |-> req.PreferredCommunication,
                       SocioeconomicStatus |-> req.SocioeconomicStatus,
                       GeographicLocation |-> req.GeographicLocation,
                       CreatedAt |-> 0,
                       UpdatedAt |-> 0]
           c == RepoCreatePatient(patient, fault)
           create == <<Call("patientRepo.CreatePatient", patient)>>
       IN  IF validationErrors # <<>>
           THEN /\ rq' = [rq EXCEPT ![w] =
                       Done(r, <<>>,
                            ValidationError("INVALID_PATIENT_DATA",
                                            ErrorDetails(validationErrors)), NoEntry)]
                /\ UNCHANGED <<patients, serial, now>>
           ELSE IF ~AgeMatchesDateOfBirth(req.Age, req.DateOfBirth, now)
           THEN /\ rq' = [rq EXCEPT ![w] =
                       Done(r, <<>>, ValidationError("INCONSISTENT_DATA", <<>>), NoEntry)]
                /\ UNCHANGED <<patients, serial, now>>
           ELSE /\ CanWrite
                /\ serial.patients <= MaxSerial + 1
                /\ rq' = [rq EXCEPT ![w] =
                       IF c.err # Nil
                       THEN Done(r, create, Errorf("create patient error", c.err), NoEntry)
                       ELSE Done(r, create, Nil, c.patient)]
                /\ patients' = c.tbl
                /\ serial' = [serial EXCEPT !.patients = c.seq]
                /\ now' = now + 1
    /\ UNCHANGED <<patient_lifestyle, patient_medical_history, service>>

GetPatient(w, patientID, fault) ==
    /\ rq[w].pc = "idle"
    /\ service = "PatientService"
    /\ LET r == Started("GetPatient", patientID, <<>>, "", "", fault)
           g == RepoGetPatient(patientID, fault)
           calls == <<Call("patientRepo.GetPatient", patientID)>>
       IN  rq' = [rq EXCEPT ![w] =
               IF g.err # Nil
               THEN IF ErrorsIs(g.err, ErrPatientNotFound)
                    THEN Done(r, calls, ErrPatientNotFound, NoEntry)
                    ELSE Done(r, calls, Errorf("get patient error", g.err), NoEntry)
               ELSE Done(r, calls, Nil, g.patient)]
    /\ UNCHANGED <<patients, patient_lifestyle, patient_medical_history, serial, now,
                   service>>

\* "Update patient fields from the request" (UpdatePatient)
MergePatient(existingPatient, req) ==
    [existingPatient EXCEPT
        !.FullName = IF req.FullName # "" THEN req.FullName ELSE @,
        !.Age = IF req.Age # 0 THEN req.Age ELSE @,
        !.DateOfBirth = IF ~IsZero(req.DateOfBirth) THEN req.DateOfBirth ELSE @,
        !.Sex = IF req.Sex # "" THEN req.Sex ELSE @,
        !.PhoneNumber = IF req.PhoneNumber # "" THEN req.PhoneNumber ELSE @,
        !.EmailAddress = IF req.EmailAddress # "" THEN req.EmailAddress ELSE @,
        !.PreferredCommunication =
            IF req.PreferredCommunication # "" THEN req.PreferredCommunication ELSE @,
        !.SocioeconomicStatus =
            IF req.SocioeconomicStatus # "" THEN req.SocioeconomicStatus ELSE @,
        !.GeographicLocation =
            IF req.GeographicLocation # "" THEN req.GeographicLocation ELSE @]

\* UpdatePatient up to the merge: validation, consistency check, load, merge
UpdatePatient(w, patientID, req, fault) ==
    /\ rq[w].pc = "idle"
    /\ service = "PatientService"
    /\ LET r == Started("UpdatePatient", patientID, req, "", "", fault)
           validationErrors == ValidateStruct(UpdatePatientRequestRules, req, now)
           g == RepoGetPatient(patientID, fault)
           get == <<Call("patientRepo.GetPatient", patientID)>>
       IN  rq' = [rq EXCEPT ![w] =
               IF validationErrors # <<>>
               THEN Done(r, <<>>,
                         ValidationError("INVALID_PATIENT_DATA",
                                         ErrorDetails(validationErrors)), NoEntry)
               ELSE IF ~AgeMatchesDateOfBirth(req.Age, req.DateOfBirth, now)
               THEN Done(r, <<>>, ValidationError("INCONSISTENT_DATA", <<>>), NoEntry)
               ELSE IF g.err # Nil
               THEN Done(r, get, Errorf("failed to get existing patient", g.err), NoEntry)
               ELSE Goto([r EXCEPT !.loaded = g.patient,
                                   !.merged = MergePatient(g.patient, req)],
                         "update", get)]
    /\ UNCHANGED <<patients, patient_lifestyle, patient_medical_history, serial, now,
                   service>>

\* UpdatePatient from the UPDATE on
UpdatePatientUpdate(w, fault) ==
    /\ rq[w].pc = "update"
    /\ rq[w].op = "UpdatePatient"
    /\ CanWrite
    /\ LET r == [rq[w] EXCEPT !.fault = fault]
           u == RepoUpdatePatient(r.id, r.merged, fault)
           calls == Append(r.calls, Call("patientRepo.UpdatePatient", r.id))
       IN  /\ rq' = [rq EXCEPT ![w] =
                  IF u.err # Nil
                  THEN Done(r, calls, Errorf("update patient error", u.err), NoEntry)
                  ELSE Done(r, calls, Nil, u.patient)]
           /\ patients' = u.tbl
    /\ now' = now + 1
    /\ UNCHANGED <<patient_lifestyle, patient_medical_history, serial, service>>

\* ------------------------------------------------------------ handlers
\* What a gin handler writes once its service call has returned (entry or
\* entries, err).  The path id has been parsed and the body bound before the
\* call; no request type carries a binding tag, so binding checks no rule.

ErrInvalidMedicalHistoryData == MkErr("ErrInvalidMedicalHistoryData", <<>>, "", <<>>)

\* err.Error(): the prefixes of the %w chain, then the text of its bottom
ErrorString(err) ==
    LET text == CASE err.base = "ErrPatientNotFound" -> "patient not found"
                  [] err.base = "ErrMedicalHistoryEntryNotFound" ->
                        "medical history entry not found"
                  [] err.base = "ErrInvalidMedicalHistoryData" ->
                        "invalid medical history data"
                  [] err.base = "ErrInvalidInput" -> "invalid input"
                  [] err.base = "ErrLifestyleEntryNotFound" -> "lifestyle entry not found"
                  [] err.base = "ErrForbidden" -> "forbidden"
                  [] err.base = "ValidationError" ->
                        IF Len(err.details) > 0
                        THEN err.code \o ": Validation errors occurred - ["
                                 \o Join(err.details, " ") \o "]"
                        ELSE err.code \o ": Validation errors occurred"
                  [] OTHER -> err.base
    IN  Join(err.wrap \o <<text>>, ": ")

\* c.JSON(status, body)
JSON(status, body) == [status |-> status, body |-> body]

\* domain.ErrorResponse{Error: text}
ErrorResponse(text) == [error |-> text]

\* encoding/json of a slice: null for a nil slice, else an array.  A slice a
\* service returns is nil or has elements; <<>> stands for the nil slice.
JSONNull == [null |-> TRUE]
JSONArray(items) == [array |-> items]
MarshalSlice(entries) == IF entries = <<>> THEN JSONNull ELSE JSONArray(entries)

\* the list handler with no case for the entries' not-found sentinel
LifestyleHandlerGetLifestyleEntriesNoEmptyCase(entries, err) ==
    IF err # Nil
    THEN IF ErrorsIs(err, ErrPatientNotFound)
         THEN JSON(404, ErrorResponse(ErrorString(err)))
         ELSE JSON(500, ErrorResponse("Failed to get lifestyle entries"))
    ELSE JSON(200, MarshalSlice(entries))

\* LifestyleHandler.GetLifestyleEntries
LifestyleHandlerGetLifestyleEntries(entries, err) ==
    IF err # Nil
    THEN IF ErrorsIs(err, ErrPatientNotFound)
         THEN JSON(404, ErrorResponse(ErrorString(err)))
         ELSE IF ErrorsIs(err, ErrLifestyleEntryNotFound)
         THEN JSON(200, JSONArray(<<>>))
         ELSE JSON(500, ErrorResponse("Failed to get lifestyle entries"))
    ELSE JSON(200, MarshalSlice(entries))

\* MedicalHistoryHandler.GetMedicalHistoryEntries
MedicalHistoryHandlerGetMedicalHistoryEntries(entries, err) ==
    IF err # Nil
    THEN IF ErrorsIs(err, ErrMedicalHistoryEntryNotFound)
         THEN JSON(404, ErrorResponse(ErrorString(err)))
         ELSE IF ErrorsIs(err, ErrPatientNotFound)
         THEN JSON(404, ErrorResponse(ErrorString(err)))
         ELSE JSON(500, ErrorResponse("Failed to get medical history entries"))
    ELSE JSON(200, MarshalSlice(entries))

\* MedicalHistoryHandler.CreateMedicalHistoryEntry
MedicalHistoryHandlerCreateMedicalHistoryEntry(entry, err) ==
    IF err # Nil
    THEN IF ErrorsIs(err, ErrInvalidMedicalHistoryData)
         THEN JSON(400, ErrorResponse(ErrorString(err)))
         ELSE IF ErrorsIs(err, ErrPatientNotFound)
         THEN JSON(404, ErrorResponse(ErrorString(err)))
         ELSE JSON(500, ErrorResponse("Failed to create medical history entry"))
    ELSE JSON(201, entry)

\* MedicalHistoryHandler.UpdateMedicalHistoryEntry
MedicalHistoryHandlerUpdateMedicalHistoryEntry(entry, err) ==
    IF err # Nil
    THEN IF ErrorsIs(err, ErrMedicalHistoryEntryNotFound)
         THEN JSON(404, ErrorResponse(ErrorString(err)))
         ELSE IF ErrorsIs(err, ErrInvalidMedicalHistoryData)
         THEN JSON(400, ErrorResponse(ErrorString(err)))
         ELSE IF ErrorsIs(err, ErrForbidden)
         THEN JSON(403, ErrorResponse(ErrorString(err)))
         ELSE JSON(500, ErrorResponse("Failed to update medical history entry"))
    ELSE JSON(200, entry)

\* c.Status(code): a response with no body
Status(code) == [status |-> code, body |-> [empty |-> TRUE]]

\* the create handler answering an unrecognised error with the error's text
LifestyleHandlerCreateLifestyleEntryLeaks(entry, err) ==
    IF err # Nil
    THEN IF ErrorsIs(err, ErrInvalidInput)
         THEN JSON(400, ErrorResponse(ErrorString(err)))
         ELSE IF ErrorsIs(err, ErrPatientNotFound)
         THEN JSON(404, ErrorResponse(ErrorString(err)))
         ELSE JSON(500, ErrorResponse(ErrorString(err)))
    ELSE JSON(201, entry)

\* LifestyleHandler.CreateLifestyleEntry
LifestyleHandlerCreateLifestyleEntry(entry, err) ==
    IF err # Nil
    THEN IF ErrorsIs(err, ErrInvalidInput)
         THEN JSON(400, ErrorResponse(ErrorString(err)))
         ELSE IF ErrorsIs(err, ErrPatientNotFound)
         THEN JSON(404, ErrorResponse(ErrorString(err)))
         ELSE JSON(500, ErrorResponse("Failed to create lifestyle entry"))
    ELSE JSON(201, entry)

\* LifestyleHandler.UpdateLifestyleEntry
LifestyleHandlerUpdateLifestyleEntry(entry, err) ==
    IF err # Nil
    THEN IF ErrorsIs(err, ErrInvalidInput)
         THEN JSON(400, ErrorResponse(ErrorString(err)))
         ELSE IF ErrorsIs(err, ErrLifestyleEntryNotFound)
         THEN JSON(404, ErrorResponse(ErrorString(err)))
         ELSE IF ErrorsIs(err, ErrForbidden)
         THEN JSON(403, ErrorResponse(ErrorString(err)))
         ELSE JSON(500, ErrorResponse("Failed to update lifestyle entry"))
    ELSE JSON(200, entry)

\* LifestyleHandler.DeleteLifestyleEntry
LifestyleHandlerDeleteLifestyleEntry(err) ==
    IF err # Nil
    THEN IF ErrorsIs(err, ErrLifestyleEntryNotFound)
         THEN JSON(404, ErrorResponse(ErrorString(err)))
         ELSE IF ErrorsIs(err, ErrForbidden)
         THEN JSON(403, ErrorResponse(ErrorString(err)))
         ELSE JSON(500, ErrorResponse("Failed to delete lifestyle entry"))
    ELSE Status(204)

\* MedicalHistoryHandler.DeleteMedicalHistoryEntry
MedicalHistoryHandlerDeleteMedicalHistoryEntry(err) ==
    IF err # Nil
    THEN IF ErrorsIs(err, ErrMedicalHistoryEntryNotFound)
         THEN JSON(404, ErrorResponse(ErrorString(err)))
         ELSE IF ErrorsIs(err, ErrForbidden)
         THEN JSON(403, ErrorResponse(ErrorString(err)))
         ELSE JSON(500, ErrorResponse("Failed to delete medical history entry"))
    ELSE Status(204)

\* PatientHandler.CreatePatient
PatientHandlerCreatePatient(patient, err) ==
    IF err # Nil
    THEN IF ErrorsAsValidation(err)
         THEN JSON(400, ErrorResponse(ErrorString(err)))
         ELSE JSON(500, ErrorResponse("Failed to create patient"))
    ELSE JSON(201, patient)

\* PatientHandler.GetPatient
PatientHandlerGetPatient(patient, err) ==
    IF err # Nil
    THEN IF ErrorsIs(err, ErrPatientNotFound)
         THEN JSON(404, ErrorResponse("Patient not found"))
         ELSE JSON(500, ErrorResponse("Failed to get patient"))
    ELSE JSON(200, patient)

\* PatientHandler.UpdatePatient
PatientHandlerUpdatePatient(patient, err) ==
    IF err # Nil
    THEN IF ErrorsIs(err, ErrPatientNotFound)
         THEN JSON(404, ErrorResponse("Patient not found"))
         ELSE IF ErrorsAsValidation(err)
         THEN JSON(400, ErrorResponse(ErrorString(err)))
         ELSE JSON(500, ErrorResponse("Failed to update patient"))
    ELSE JSON(200, patient)

\* ------------------------------------------------------------- the runs
\* The database a run starts from: patients 1 and 2 exist, patient 3 does
\* not; the entry tables are empty.  Patient 1 has only the NOT NULL columns.
\* the days of the requests and of the stored rows are midnights
PastDay == Date(StartTime) - 12000 * TicksPerDay
PastDay2 == Date(StartTime) - 400 * TicksPerDay
FutureDay == Date(StartTime) + 30 * TicksPerDay
\* an instant with a time of day: noon of the day of PastDay2
PastNoon == PastDay2 + 1

InitialPatients ==
    (1 :> [patient_id |-> 1, user_id |-> <<5>>, full_name |-> "Ann Lee",
           age |-> <<0>>, date_of_birth |-> PastDay, sex |-> "Female",
           phone_number |-> <<>>, email_address |-> <<>>,
           preferred_communication |-> <<>>, socioeconomic_status |-> <<>>,
           geographic_location |-> <<>>,
           created_at |-> <<PastDay2>>, updated_at |-> <<PastDay2>>])
    @@
    (2 :> [patient_id |-> 2, user_id |-> <<7>>, full_name |-> "Bob Roe",
           age |-> <<32>>, date_of_birth |-> PastDay, sex |-> "Male",
           phone_number |-> <<"+15550100">>, email_address |-> <<"bob@example.org">>,
           preferred_communication |-> <<"Email">>, socioeconomic_status |-> <<"Middle">>,
           geographic_location |-> <<"Lyon">>,
           created_at |-> <<PastDay2>>, updated_at |-> <<PastDay2>>])

EmptyTable == <<>>

Services == {"LifestyleService", "MedicalHistoryService", "PatientService"}

InitWith(workers, services) ==
    /\ patients = InitialPatients
    /\ patient_lifestyle = EmptyTable
    /\ patient_medical_history = EmptyTable
    /\ serial = [patients |-> 3, patient_lifestyle |-> 1, patient_medical_history |-> 1]
    /\ now = StartTime
    /\ rq = [w \in workers |-> Idle]
    /\ service \in services

PatientIDs == {1, 2, 3}
EntryIDs == 1..(MaxSerial + 1)
Faults == {FALSE, TRUE}
IdpOutcomes == {"ok", "error"}
\* the callers' identities: patient 2, patient 3, a physician
Callers == {"2", "3", "dr"}
\* every identity the identity provider of the model knows, and patient ids
AllCallers == {"1", "2", "3", "dr", "ck", "nu", "ra", "kv"}

LifestyleRequest(factor, value, startDate, endDate) ==
    [LifestyleFactor |-> factor, Value |-> value,
     StartDate |-> startDate, EndDate |-> endDate]

CreateLifestyleRequests ==
    { LifestyleRequest("", "", 0, 0),
      LifestyleRequest("", "Vegan", 0, 0),
      LifestyleRequest("Smoking", "", 0, 0),
      LifestyleRequest("Diet", "Vegan", PastDay2, FutureDay),
      LifestyleRequest("Sleep", "", PastNoon, 0) }

UpdateLifestyleRequests ==
    { LifestyleRequest("", "", 0, 0),
      LifestyleRequest("Exercise", "", 0, 0),
      LifestyleRequest("", "Daily", 0, 0),
      LifestyleRequest("", "", PastDay, 0),
      LifestyleRequest("", "", 0, StartTime),
      LifestyleRequest("Exercise", "Daily", PastDay, StartTime) }

MedicalHistoryRequest(condition, diagnosisDate, status, details) ==
    [Condition |-> condition, DiagnosisDate |-> diagnosisDate,
     Status |-> status, Details |-> details]

\* the one text the configured one-of rule accepts for a status
StatusText == Join(StatusValues, " ")

CreateMedicalHistoryRequests ==
    { MedicalHistoryRequest("", 0, "", ""),
      MedicalHistoryRequest("", FutureDay, "Fake", "Details"),
      MedicalHistoryRequest("Asthma", 0, "Active", ""),
      MedicalHistoryRequest("Asthma", FutureDay, StatusText, ""),
      MedicalHistoryRequest("Asthma", 0, StatusText, ""),
      MedicalHistoryRequest("Diabetes", PastDay2, StatusText, "Type 2"),
      MedicalHistoryRequest("Flu", PastNoon, StatusText, "") }

UpdateMedicalHistoryRequests ==
    { MedicalHistoryRequest("", 0, "", ""),
      MedicalHistoryRequest("Gout", 0, "", ""),
      MedicalHistoryRequest("", PastDay, "", ""),
      MedicalHistoryRequest("", FutureDay, "", ""),
      MedicalHistoryRequest("", 0, "Resolved", ""),
      MedicalHistoryRequest("", 0, "", "Chronic"),
      MedicalHistoryRequest("Gout", PastDay, StatusText, "Chronic") }

PatientRequest(fullName, age, dateOfBirth, sex, phone, email, comm, status, location) ==
    [FullName |-> fullName, Age |-> age, DateOfBirth |-> dateOfBirth, Sex |-> sex,
     PhoneNumber |-> phone, EmailAddress |-> email,
     PreferredCommunication |-> comm,
     SocioeconomicStatus |-> status,
     GeographicLocation |-> location]

\* the one text the configured one-of rule accepts for a sex
SexText == Join(SexValues, " ")

CreatePatientRequests ==
    { [UserID |-> 0] @@ PatientRequest("", 0, 0, "", "", "", "", "", ""),
      [UserID |-> 9] @@ PatientRequest("Cy Poe", 32, PastDay, "Male", "+15550199",
                                       "cy@example.org", "Phone", "Low", "Oslo"),
      [UserID |-> 9] @@ PatientRequest("Cy Poe", 0, PastDay, SexText, "",
                                       "cy@example.org", "", "", ""),
      [UserID |-> 9] @@ PatientRequest("Cy Poe", 25, PastDay, SexText, "",
                                       "cy@example.org", "", "", "") }

UpdatePatientRequests ==
    { PatientRequest("", 0, 0, "", "", "", "", "", ""),
      PatientRequest("Ann Low", 0, 0, "", "", "", "", "", ""),
      PatientRequest("", 40, 0, "", "", "", "", "", ""),
      PatientRequest("", 17, 0, "", "", "", "", "", ""),
      PatientRequest("", 0, PastDay2, "", "", "", "", "", ""),
      PatientRequest("", 32, PastDay, "", "", "", "", "", ""),
      PatientRequest("", 25, PastDay, "", "", "", "", "", ""),
      PatientRequest("", 0, 0, "Other", "", "", "", "", ""),
      PatientRequest("", 0, 0, SexText, "", "", "", "", ""),
      PatientRequest("", 0, 0, "", "call me", "", "", "", ""),
      PatientRequest("", 0, 0, "", "+15550199", "bob@example.org", "", "", "Oslo") }

\* the requests one worker can start or continue
LifestyleStep(w) ==
    \/ \E patientID \in PatientIDs, req \in CreateLifestyleRequests, fault \in Faults :
           CreateLifestyleEntry(w, patientID, req, fault)
    \/ \E fault \in Faults : CreateLifestyleEntryInsert(w, fault)
    \/ \E patientID \in PatientIDs, fault \in Faults :
           GetLifestyleEntries(w, patientID, fault)
    \/ \E fault \in Faults : GetLifestyleEntriesSelect(w, fault)
    \/ \E entryID \in EntryIDs, fault \in Faults : GetLifestyleEntry(w, entryID, fault)
    \/ \E entryID \in EntryIDs, req \in UpdateLifestyleRequests, caller \in Callers,
          idp \in IdpOutcomes, fault \in Faults :
           UpdateLifestyleEntry(w, entryID, req, caller, idp, fault)
    \/ \E fault \in Faults : UpdateLifestyleEntryUpdate(w, fault)
    \/ \E entryID \in EntryIDs, caller \in Callers, idp \in IdpOutcomes,
          fault \in Faults :
           DeleteLifestyleEntry(w, entryID, caller, idp, fault)
    \/ \E fault \in Faults : DeleteLifestyleEntryDelete(w, fault)

MedicalHistoryStep(w) ==
    \/ \E patientID \in PatientIDs, req \in CreateMedicalHistoryRequests,
          fault \in Faults :
           CreateMedicalHistoryEntry(w, patientID, req, fault)
    \/ \E fault \in Faults : CreateMedicalHistoryEntryInsert(w, fault)
    \/ \E patientID \in PatientIDs, fault \in Faults :
           GetMedicalHistoryEntries(w, patientID, fault)
    \/ \E fault \in Faults : GetMedicalHistoryEntriesSelect(w, fault)
    \/ \E entryID \in EntryIDs, fault \in Faults :
           GetMedicalHistoryEntry(w, entryID, fault)
    \/ \E entryID \in EntryIDs, req \in UpdateMedicalHistoryRequests,
          caller \in Callers, idp \in IdpOutcomes, fault \in Faults :
           UpdateMedicalHistoryEntry(w, entryID, req, caller, idp, fault)
    \/ \E fault \in Faults : UpdateMedicalHistoryEntryUpdate(w, fault)
    \/ \E entryID \in EntryIDs, caller \in Callers, idp \in IdpOutcomes,
          fault \in Faults :
           DeleteMedicalHistoryEntry(w, entryID, caller, idp, fault)
    \/ \E fault \in Faults : DeleteMedicalHistoryEntryDelete(w, fault)

PatientStep(w) ==
    \/ \E req \in CreatePatientRequests, fault \in Faults : CreatePatient(w, req, fault)
    \/ \E patientID \in PatientIDs, fault \in Faults : GetPatient(w, patientID, fault)
    \/ \E patientID \in PatientIDs, req \in UpdatePatientRequests, fault \in Faults :
           UpdatePatient(w, patientID, req, fault)
    \/ \E fault \in Faults : UpdatePatientUpdate(w, fault)

\* one request at a time
OneWorker == {1}

Init == InitWith(OneWorker, Services)

Next ==
    \E w \in OneWorker :
        \/ LifestyleStep(w)
        \/ MedicalHistoryStep(w)
        \/ PatientStep(w)
        \/ Return(w)

Spec == Init /\ [][Next]_vars

\* ---- the gate alone: every identity against every single-digit patient id
GateCallers == AllCallers \cup {"4", "5", "6", "7", "8", "9"}
GatePatientIDs == 1..9

InitGate == InitWith(OneWorker, {"authClient"})

NextGate ==
    \E w \in OneWorker :
        \/ \E userID \in GateCallers, patientID \in GatePatientIDs, idp \in IdpOutcomes :
               AuthorizeCall(w, userID, patientID, idp)
        \/ Return(w)

SpecGate == InitGate /\ [][NextGate]_vars

\* ---- two requests at a time on the entries of patient 2
TwoWorkers == {1, 2}
RaceEntryIDs == {1}
RaceCallers == {"2", "3"}

RaceCreateLifestyleRequests ==
    { LifestyleRequest("Diet", "Vegan", 0, 0), LifestyleRequest("Sleep", "", PastNoon, 0) }
RaceUpdateLifestyleRequests ==
    { LifestyleRequest("", "", 0, 0), LifestyleRequest("Exercise", "", PastDay, 0),
      LifestyleRequest("", "Keto", 0, 0) }
RaceCreateMedicalHistoryRequests ==
    { MedicalHistoryRequest("Asthma", 0, StatusText, ""),
      MedicalHistoryRequest("Flu", PastNoon, StatusText, "") }
RaceUpdateMedicalHistoryRequests ==
    { MedicalHistoryRequest("", 0, "", ""), MedicalHistoryRequest("Gout", PastDay, "", ""),
      MedicalHistoryRequest("", 0, "", "Mild") }

RaceLifestyleStep(w) ==
    \/ \E req \in RaceCreateLifestyleRequests : CreateLifestyleEntry(w, 2, req, FALSE)
    \/ \E fault \in Faults : CreateLifestyleEntryInsert(w, fault)
    \/ GetLifestyleEntries(w, 2, FALSE)
    \/ GetLifestyleEntriesSelect(w, FALSE)
    \/ \E entryID \in RaceEntryIDs : GetLifestyleEntry(w, entryID, FALSE)
    \/ \E entryID \in RaceEntryIDs, req \in RaceUpdateLifestyleRequests,
          caller \in RaceCallers :
           UpdateLifestyleEntry(w, entryID, req, caller, "ok", FALSE)
    \/ \E fault \in Faults : UpdateLifestyleEntryUpdate(w, fault)
    \/ \E entryID \in RaceEntryIDs, caller \in RaceCallers :
           DeleteLifestyleEntry(w, entryID, caller, "ok", FALSE)
    \/ \E fault \in Faults : DeleteLifestyleEntryDelete(w, fault)

RaceMedicalHistoryStep(w) ==
    \/ \E req \in RaceCreateMedicalHistoryRequests :
           CreateMedicalHistoryEntry(w, 2, req, FALSE)
    \/ \E fault \in Faults : CreateMedicalHistoryEntryInsert(w, fault)
    \/ GetMedicalHistoryEntries(w, 2, FALSE)
    \/ GetMedicalHistoryEntriesSelect(w, FALSE)
    \/ \E entryID \in RaceEntryIDs : GetMedicalHistoryEntry(w, entryID, FALSE)
    \/ \E entryID \in RaceEntryIDs, req \in RaceUpdateMedicalHistoryRequests,
          caller \in RaceCallers :
           UpdateMedicalHistoryEntry(w, entryID, req, caller, "ok", FALSE)
    \/ \E fault \in Faults : UpdateMedicalHistoryEntryUpdate(w, fault)
    \/ \E entryID \in RaceEntryIDs, caller \in RaceCallers :
           DeleteMedicalHistoryEntry(w, entryID, caller, "ok", FALSE)
    \/ \E fault \in Faults : DeleteMedicalHistoryEntryDelete(w, fault)

InitRace == InitWith(TwoWorkers, {"LifestyleService", "MedicalHistoryService"})

NextRace ==
    \E w \in TwoWorkers :
        \/ RaceLifestyleStep(w)
        \/ RaceMedicalHistoryStep(w)
        \/ Return(w)

SpecRace == InitRace /\ [][NextRace]_vars

\* ---- the repositories alone, called as their tests call them
DomainPatient(userID, req) ==
    [PatientID |-> 0, UserID |-> userID, CreatedAt |-> 0, UpdatedAt |-> 0] @@ req

RepoPatients ==
    { DomainPatient(9, PatientRequest("Cy Poe", 32, PastDay, "Male", "+15550199",
                                      "cy@example.org", "Phone", "Low", "Oslo")),
      DomainPatient(9, PatientRequest("Bo Roe", 0, PastDay, "Other", "",
                                      "bob@example.org", "", "", "")),
      DomainPatient(8, PatientRequest("Di Noe", 0, PastDay, "Female", "",
                                      "ann@example.org", "", "", "")),
      DomainPatient(0, PatientRequest("", 0, 0, "", "", "bob@example.org", "", "", "")) }

RepoLifestyleEntries ==
    { [PatientLifestyleID |-> 0, PatientID |-> patientID, CreatedAt |-> 0, UpdatedAt |-> 0]
          @@ LifestyleRequest("Diet", "Vegan", PastDay2, 0) : patientID \in {2, 3} }

RepoMedicalHistoryEntries ==
    { [PatientMedicalHistoryID |-> 0, PatientID |-> patientID, CreatedAt |-> 0,
       UpdatedAt |-> 0]
          @@ MedicalHistoryRequest("Asthma", PastDay2, "Active", "") : patientID \in {2, 3} }

\* one call of PatientRepositoryImpl.CreatePatient
PatientRepositoryCreatePatient(w, patient, fault) ==
    /\ rq[w].pc = "idle"
    /\ service = "Repository"
    /\ CanWrite
    /\ serial.patients <= MaxSerial + 2
    /\ LET c == RepoCreatePatient(patient, fault)
       IN  /\ rq' = [rq EXCEPT ![w] =
                  Done(Started("patientRepo.CreatePatient", 0, patient, "", "", fault),
                       <<>>, c.err, c.patient)]
           /\ patients' = c.tbl
           /\ serial' = [serial EXCEPT !.patients = c.seq]
    /\ now' = now + 1
    /\ UNCHANGED <<patient_lifestyle, patient_medical_history, service>>

\* one call of PatientRepositoryImpl.UpdatePatient
PatientRepositoryUpdatePatient(w, patientID, patient, fault) ==
    /\ rq[w].pc = "idle"
    /\ service = "Repository"
    /\ CanWrite
    /\ LET u == RepoUpdatePatient(patientID, patient, fault)
       IN  /\ rq' = [rq EXCEPT ![w] =
                  Done(Started("patientRepo.UpdatePatient", patientID, patient, "", "",
                               fault),
                       <<>>, u.err, u.patient)]
           /\ patients' = u.tbl
    /\ now' = now + 1
    /\ UNCHANGED <<patient_lifestyle, patient_medical_history, serial, service>>

\* one call of LifestyleRepositoryImpl.CreateLifestyleEntry
LifestyleRepositoryCreateLifestyleEntry(w, entry, fault) ==
    /\ rq[w].pc = "idle"
    /\ service = "Repository"
    /\ CanWrite
    /\ LET c == RepoCreateLifestyleEntry(entry, fault)
       IN  /\ rq' = [rq EXCEPT ![w] =
                  Done(Started("lifestyleRepo.CreateLifestyleEntry", 0, entry, "", "",
                               fault),
                       <<>>, c.err, c.entry)]
           /\ patient_lifestyle' = c.tbl
           /\ serial' = [serial EXCEPT !.patient_lifestyle = c.seq]
    /\ now' = now + 1
    /\ UNCHANGED <<patients, patient_medical_history, service>>

\* one call of MedicalHistoryRepositoryImpl.CreateMedicalHistoryEntry
MedicalHistoryRepositoryCreateMedicalHistoryEntry(w, entry, fault) ==
    /\ rq[w].pc = "idle"
    /\ service = "Repository"
    /\ CanWrite
    /\ LET c == RepoCreateMedicalHistoryEntry(entry, fault)
       IN  /\ rq' = [rq EXCEPT ![w] =
                  Done(Started("medicalHistoryRepo.CreateMedicalHistoryEntry", 0, entry,
                               "", "", fault),
                       <<>>, c.err, c.entry)]
           /\ patient_medical_history' = c.tbl
           /\ serial' = [serial EXCEPT !.patient_medical_history = c.seq]
    /\ now' = now + 1
    /\ UNCHANGED <<patients, patient_lifestyle, service>>

InitRepo == InitWith(OneWorker, {"Repository"})

NextRepo ==
    \E w \in OneWorker :
        \/ \E patient \in RepoPatients, fault \in Faults :
               PatientRepositoryCreatePatient(w, patient, fault)
        \/ \E patientID \in PatientIDs, patient \in RepoPatients, fault \in Faults :
               PatientRepositoryUpdatePatient(w, patientID, patient, fault)
        \/ \E entry \in RepoLifestyleEntries, fault \in Faults :
               LifestyleRepositoryCreateLifestyleEntry(w, entry, fault)
        \/ \E entry \in RepoMedicalHistoryEntries, fault \in Faults :
               MedicalHistoryRepositoryCreateMedicalHistoryEntry(w, entry, fault)
        \/ Return(w)

SpecRepo == InitRepo /\ [][NextRepo]_vars

\* ---- the consistency check of age and date of birth alone, on calendar
\* days around the end of February and the end of the year
IsLeap(y) == (y % 4 = 0 /\ y % 100 # 0) \/ y % 400 = 0

\* days of the year before the first of month m
DaysBeforeMonth(y, m) ==
    <<0, 31, 59, 90, 120, 151, 181, 212, 243, 273, 304, 334, 365>>[m]
        + (IF IsLeap(y) /\ m > 2 THEN 1 ELSE 0)

\* time.Date(y, m, d, 0, 0, 0, 0, time.UTC)
TimeDate(y, m, d) == (DaysBeforeYear(y) + DaysBeforeMonth(y, m) + d - 1) * TicksPerDay

AgeCheckTodays ==
    { TimeDate(2024, 2, 29), TimeDate(2024, 3, 1), TimeDate(2025, 2, 28),
      TimeDate(2025, 3, 1), TimeDate(2024, 12, 31), TimeDate(2025, 12, 31) }

AgeCheckBirthDays ==
    { TimeDate(2000, 2, 29), TimeDate(2000, 3, 1), TimeDate(2001, 3, 1),
      TimeDate(2001, 3, 2), TimeDate(2000, 12, 31), TimeDate(2001, 12, 31) }

AgeCheckAges == 22..25

\* "Validate Age and DateOfBirth consistency" of CreatePatient and
\* UpdatePatient, for a request that has passed the validation
AgeConsistency(w, age, dateOfBirth) ==
    /\ rq[w].pc = "idle"
    /\ service = "AgeConsistency"
    /\ rq' = [rq EXCEPT ![w] =
              Done(Started("AgeConsistency", 0, [Age |-> age, DateOfBirth |-> dateOfBirth],
                           "", "", FALSE),
                   <<>>,
                   IF AgeMatchesDateOfBirth(age, dateOfBirth, now)
                   THEN Nil ELSE ValidationError("INCONSISTENT_DATA", <<>>),
                   NoEntry)]
    /\ UNCHANGED <<patients, patient_lifestyle, patient_medical_history, serial, now,
                   service>>

InitAge ==
    /\ patients = InitialPatients
    /\ patient_lifestyle = EmptyTable
    /\ patient_medical_history = EmptyTable
    /\ serial = [patients |-> 3, patient_lifestyle |-> 1, patient_medical_history |-> 1]
    /\ now \in AgeCheckTodays
    /\ rq = [w \in OneWorker |-> Idle]
    /\ service = "AgeConsistency"

NextAge ==
    \E w \in OneWorker :
        \/ \E age \in AgeCheckAges, dateOfBirth \in AgeCheckBirthDays :
               AgeConsistency(w, age, dateOfBirth)
        \/ Return(w)

SpecAge == InitAge /\ [][NextAge]_vars

\* ---- the routes of Update and Delete of the entries, with their path
\* parameters (/v1/patients/:patient_id/lifestyle/:lifestyle_id and
\* /v1/patients/:patient_id/medical_history/:medical_history_id)
PathValues == {"1", "2", "3", "x"}

\* strconv.Atoi on the path values
Atoi(s) ==
    CASE s = "1" -> [n |-> 1, err |-> FALSE]
      [] s = "2" -> [n |-> 2, err |-> FALSE]
      [] s = "3" -> [n |-> 3, err |-> FALSE]
      [] OTHER -> [n |-> 0, err |-> TRUE]

\* the entry id read from the first path parameter instead
EntryIDParamOfPatient(params, key) == Atoi(params["patient_id"])

\* strconv.Atoi(c.Param(key)), key being the parameter of the entry id
EntryIDParam(params, key) == Atoi(params[key])

\* LifestyleHandler.UpdateLifestyleEntry on a bound request body: 400 and no
\* call of the service for an entry id that is no number
LifestyleHandlerUpdateLifestyleEntryRoute(w, params, req, caller, idp, fault) ==
    LET entryID == EntryIDParam(params, "lifestyle_id")
    IN  IF entryID.err
        THEN /\ rq[w].pc = "idle"
             /\ service = "LifestyleService"
             /\ UNCHANGED vars
        ELSE UpdateLifestyleEntry(w, entryID.n, req, caller, idp, fault)

\* LifestyleHandler.DeleteLifestyleEntry
LifestyleHandlerDeleteLifestyleEntryRoute(w, params, caller, idp, fault) ==
    LET entryID == EntryIDParam(params, "lifestyle_id")
    IN  IF entryID.err
        THEN /\ rq[w].pc = "idle"
             /\ service = "LifestyleService"
             /\ UNCHANGED vars
        ELSE DeleteLifestyleEntry(w, entryID.n, caller, idp, fault)

\* MedicalHistoryHandler.UpdateMedicalHistoryEntry
MedicalHistoryHandlerUpdateMedicalHistoryEntryRoute(w, params, req, caller, idp, fault) ==
    LET entryID == EntryIDParam(params, "medical_history_id")
    IN  IF entryID.err
        THEN /\ rq[w].pc = "idle"
             /\ service = "MedicalHistoryService"
             /\ UNCHANGED vars
        ELSE UpdateMedicalHistoryEntry(w, entryID.n, req, caller, idp, fault)

\* MedicalHistoryHandler.DeleteMedicalHistoryEntry
MedicalHistoryHandlerDeleteMedicalHistoryEntryRoute(w, params, caller, idp, fault) ==
    LET entryID == EntryIDParam(params, "medical_history_id")
    IN  IF entryID.err
        THEN /\ rq[w].pc = "idle"
             /\ service = "MedicalHistoryService"
             /\ UNCHANGED vars
        ELSE DeleteMedicalHistoryEntry(w, entryID.n, caller, idp, fault)

LifestyleParams == [patient_id : PathValues, lifestyle_id : {"1", "2", "x"}]
MedicalHistoryParams == [patient_id : PathValues, medical_history_id : {"1", "2", "x"}]

InitRoute == InitWith(OneWorker, {"LifestyleService", "MedicalHistoryService"})

NextRoute ==
    \E w \in OneWorker :
        \/ \E req \in RaceCreateLifestyleRequests, patientID \in {2, 3} :
               CreateLifestyleEntry(w, patientID, req, FALSE)
        \/ CreateLifestyleEntryInsert(w, FALSE)
        \/ \E params \in LifestyleParams, req \in RaceUpdateLifestyleRequests,
              caller \in Callers, idp \in IdpOutcomes, fault \in Faults :
               LifestyleHandlerUpdateLifestyleEntryRoute(w, params, req, caller, idp, fault)
        \/ \E fault \in Faults : UpdateLifestyleEntryUpdate(w, fault)
        \/ \E params \in LifestyleParams, caller \in Callers, idp \in IdpOutcomes,
              fault \in Faults :
               LifestyleHandlerDeleteLifestyleEntryRoute(w, params, caller, idp, fault)
        \/ \E fault \in Faults : DeleteLifestyleEntryDelete(w, fault)
        \/ \E req \in RaceCreateMedicalHistoryRequests, patientID \in {2, 3} :
               CreateMedicalHistoryEntry(w, patientID, req, FALSE)
        \/ CreateMedicalHistoryEntryInsert(w, FALSE)
        \/ \E params \in MedicalHistoryParams, req \in RaceUpdateMedicalHistoryRequests,
              caller \in Callers, idp \in IdpOutcomes, fault \in Faults :
               MedicalHistoryHandlerUpdateMedicalHistoryEntryRoute(w, params, req, caller,
                                                                   idp, fault)
        \/ \E fault \in Faults : UpdateMedicalHistoryEntryUpdate(w, fault)
        \/ \E params \in MedicalHistoryParams, caller \in Callers, idp \in IdpOutcomes,
              fault \in Faults :
               MedicalHistoryHandlerDeleteMedicalHistoryEntryRoute(w, params, caller, idp,
                                                                   fault)
        \/ \E fault \in Faults : DeleteMedicalHistoryEntryDelete(w, fault)
        \/ Return(w)

SpecRoute == InitRoute /\ [][NextRoute]_vars

\* ---- the services called with the context of the request: the caller's
\* identity and the identity provider's answer to a lookup of it
Contexts == [user_id : Callers, idp : IdpOutcomes]

\* PatientService with GetPatient behind the gate
PatientServiceCallGated(w, ctx, op, id, req, fault) ==
    \/ /\ op = "CreatePatient"
       /\ CreatePatient(w, req, fault)
    \/ /\ op = "GetPatient"
       /\ IF AuthorizeFn(ctx.user_id, id, ctx.idp)
          THEN GetPatient(w, id, fault)
          ELSE /\ rq[w].pc = "idle"
               /\ service = "PatientService"
               /\ rq' = [rq EXCEPT ![w] =
                      Done(Started("GetPatient", id, <<>>, "", "", fault),
                           <<Call("authorize", id)>>, ErrForbidden, NoEntry)]
               /\ UNCHANGED <<patients, patient_lifestyle, patient_medical_history,
                              serial, now, service>>
    \/ /\ op = "UpdatePatient"
       /\ UpdatePatient(w, id, req, fault)

\* the methods of PatientService: ctx goes to the repository calls only
PatientServiceCall(w, ctx, op, id, req, fault) ==
    \/ /\ op = "CreatePatient"
       /\ CreatePatient(w, req, fault)
    \/ /\ op = "GetPatient"
       /\ GetPatient(w, id, fault)
    \/ /\ op = "UpdatePatient"
       /\ UpdatePatient(w, id, req, fault)

\* the methods of LifestyleService: s.authorize(ctx, ...) in Update and Delete
LifestyleServiceCall(w, ctx, op, id, req, fault) ==
    \/ /\ op = "CreateLifestyleEntry"
       /\ CreateLifestyleEntry(w, id, req, fault)
    \/ /\ op = "GetLifestyleEntries"
       /\ GetLifestyleEntries(w, id, fault)
    \/ /\ op = "GetLifestyleEntry"
       /\ GetLifestyleEntry(w, id, fault)
    \/ /\ op = "UpdateLifestyleEntry"
       /\ UpdateLifestyleEntry(w, id, req, ctx.user_id, ctx.idp, fault)
    \/ /\ op = "DeleteLifestyleEntry"
       /\ DeleteLifestyleEntry(w, id, ctx.user_id, ctx.idp, fault)

\* the methods of MedicalHistoryService
MedicalHistoryServiceCall(w, ctx, op, id, req, fault) ==
    \/ /\ op = "CreateMedicalHistoryEntry"
       /\ CreateMedicalHistoryEntry(w, id, req, fault)
    \/ /\ op = "GetMedicalHistoryEntries"
       /\ GetMedicalHistoryEntries(w, id, fault)
    \/ /\ op = "GetMedicalHistoryEntry"
       /\ GetMedicalHistoryEntry(w, id, fault)
    \/ /\ op = "UpdateMedicalHistoryEntry"
       /\ UpdateMedicalHistoryEntry(w, id, req, ctx.user_id, ctx.idp, fault)
    \/ /\ op = "DeleteMedicalHistoryEntry"
       /\ DeleteMedicalHistoryEntry(w, id, ctx.user_id, ctx.idp, fault)

\* the patient and entry ids the entry services are called with
CalledIDs == {1, 2}

NextCaller ==
    \E w \in OneWorker :
        \/ \E ctx \in Contexts, fault \in Faults :
               \/ \E req \in CreatePatientRequests :
                      PatientServiceCall(w, ctx, "CreatePatient", 0, req, fault)
               \/ \E id \in PatientIDs :
                      PatientServiceCall(w, ctx, "GetPatient", id, <<>>, fault)
               \/ \E id \in PatientIDs, req \in UpdatePatientRequests :
                      PatientServiceCall(w, ctx, "UpdatePatient", id, req, fault)
        \/ \E fault \in Faults : UpdatePatientUpdate(w, fault)
        \/ \E ctx \in Contexts, id \in CalledIDs, fault \in Faults :
               \/ \E req \in RaceCreateLifestyleRequests :
                      LifestyleServiceCall(w, ctx, "CreateLifestyleEntry", id, req, fault)
               \/ \E op \in {"GetLifestyleEntries", "GetLifestyleEntry",
                             "DeleteLifestyleEntry"} :
                      LifestyleServiceCall(w, ctx, op, id, <<>>, fault)
               \/ \E req \in RaceUpdateLifestyleRequests :
                      LifestyleServiceCall(w, ctx, "UpdateLifestyleEntry", id, req, fault)
        \/ \E fault \in Faults :
               \/ CreateLifestyleEntryInsert(w, fault)
               \/ GetLifestyleEntriesSelect(w, fault)
               \/ UpdateLifestyleEntryUpdate(w, fault)
               \/ DeleteLifestyleEntryDelete(w, fault)
        \/ \E ctx \in Contexts, id \in CalledIDs, fault \in Faults :
               \/ \E req \in RaceCreateMedicalHistoryRequests :
                      MedicalHistoryServiceCall(w, ctx, "CreateMedicalHistoryEntry", id,
                                                req, fault)
               \/ \E op \in {"GetMedicalHistoryEntries", "GetMedicalHistoryEntry",
                             "DeleteMedicalHistoryEntry"} :
                      MedicalHistoryServiceCall(w, ctx, op, id, <<>>, fault)
               \/ \E req \in RaceUpdateMedicalHistoryRequests :
                      MedicalHistoryServiceCall(w, ctx, "UpdateMedicalHistoryEntry", id,
                                                req, fault)
        \/ \E fault \in Faults :
               \/ CreateMedicalHistoryEntryInsert(w, fault)
               \/ GetMedicalHistoryEntriesSelect(w, fault)
               \/ UpdateMedicalHistoryEntryUpdate(w, fault)
               \/ DeleteMedicalHistoryEntryDelete(w, fault)
        \/ Return(w)

SpecCaller == Init /\ [][NextCaller]_vars

\* ------------------------------------------------------------ properties
LifestyleOps == {"CreateLifestyleEntry", "GetLifestyleEntries", "GetLifestyleEntry",
                 "UpdateLifestyleEntry", "DeleteLifestyleEntry"}
MedicalHistoryOps == {"CreateMedicalHistoryEntry", "GetMedicalHistoryEntries",
                      "GetMedicalHistoryEntry", "UpdateMedicalHistoryEntry",
                      "DeleteMedicalHistoryEntry"}
\* the operations behind the authorization gate
GatedOps == {"UpdateLifestyleEntry", "DeleteLifestyleEntry",
             "UpdateMedicalHistoryEntry", "DeleteMedicalHistoryEntry"}
LoadCalls == {"lifestyleRepo.GetLifestyleEntry", "medicalHistoryRepo.GetMedicalHistoryEntry"}
\* the repositories' Update and Delete methods
MutatingCalls == {"lifestyleRepo.UpdateLifestyleEntry", "lifestyleRepo.DeleteLifestyleEntry",
                  "medicalHistoryRepo.UpdateMedicalHistoryEntry",
                  "medicalHistoryRepo.DeleteMedicalHistoryEntry",
                  "patientRepo.UpdatePatient"}
\* the repositories' Create and Update methods
WriteCalls == {"lifestyleRepo.CreateLifestyleEntry", "lifestyleRepo.UpdateLifestyleEntry",
               "medicalHistoryRepo.CreateMedicalHistoryEntry",
               "medicalHistoryRepo.UpdateMedicalHistoryEntry",
               "patientRepo.CreatePatient", "patientRepo.UpdatePatient"}
\* the entry repositories' methods
EntryRepoCalls == {"lifestyleRepo.CreateLifestyleEntry", "lifestyleRepo.GetLifestyleEntries",
                   "medicalHistoryRepo.CreateMedicalHistoryEntry",
                   "medicalHistoryRepo.GetMedicalHistoryEntries"}

\* the request made a call to one of fns
Called(r, fns) == \E i \in 1..Len(r.calls) : r.calls[i].fn \in fns

\* the table an operation addresses, and the patient id stored on a row of it
StoreOf(op) ==
    IF op \in LifestyleOps THEN patient_lifestyle
    ELSE IF op \in MedicalHistoryOps THEN patient_medical_history
    ELSE patients
OwnerOf(op, row) ==
    IF op \in LifestyleOps THEN row.patient_id ELSE ScanInt(row.patient_id).Int32

\* the rules of the request type an operation validates
RulesOf(op) ==
    CASE op = "CreateLifestyleEntry" -> CreateLifestyleRequestRules
      [] op = "UpdateLifestyleEntry" -> UpdateLifestyleRequestRules
      [] op = "CreateMedicalHistoryEntry" -> CreateMedicalHistoryRequestRules
      [] op = "UpdateMedicalHistoryEntry" -> UpdateMedicalHistoryRequestRules
      [] op = "CreatePatient" -> CreatePatientRequestRules
      [] op = "UpdatePatient" -> UpdatePatientRequestRules
      [] OTHER -> <<>>

FailsValidation(op, req, t) == ValidateStruct(RulesOf(op), req, t) # <<>>

\* a field the request type marks required is missing
MissingRequired(op, req) ==
    CASE op = "CreateLifestyleEntry" -> req.LifestyleFactor = ""
      [] op = "CreateMedicalHistoryEntry" -> req.Condition = "" \/ req.Status = ""
      [] op = "CreatePatient" ->
            \/ req.UserID = 0 \/ req.FullName = "" \/ IsZero(req.DateOfBirth)
            \/ req.Sex = "" \/ req.EmailAddress = ""
      [] OTHER -> FALSE

StoreUnchanged ==
    /\ patients' = patients
    /\ patient_lifestyle' = patient_lifestyle
    /\ patient_medical_history' = patient_medical_history

\* C1: when Update or Delete of a lifestyle or medical-history entry has
\* loaded the entry and the gate denies the caller for the patient id stored
\* on it, the operation ends at once with ErrForbidden, has not called the
\* repository's Update or Delete, and the tables are as they were.
C1_DeniedIsForbidden ==
    [][\A w \in Workers :
          LET r == rq'[w]
          IN  (/\ rq[w].pc = "idle"
               /\ r.op \in GatedOps
               /\ r.loaded # NoEntry
               /\ r.id \in DOMAIN StoreOf(r.op)
               /\ ~Authorize(r.caller, OwnerOf(r.op, StoreOf(r.op)[r.id]), r.idp).allowed)
              => /\ r.pc = "done"
                 /\ r.err = ErrForbidden
                 /\ ~Called(r, MutatingCalls)
                 /\ StoreUnchanged]_vars

\* a denied Update or Delete has ended with ErrForbidden on a stored entry
C1_Witness ==
    \E w \in Workers :
        /\ rq[w].pc = "done"
        /\ rq[w].op \in GatedOps
        /\ rq[w].err = ErrForbidden
        /\ rq[w].loaded # NoEntry
        /\ rq[w].id \in DOMAIN StoreOf(rq[w].op)
        /\ rq[w].idp = "ok"

ValidatingOps == {"CreateLifestyleEntry", "UpdateLifestyleEntry",
                  "CreateMedicalHistoryEntry", "UpdateMedicalHistoryEntry",
                  "CreatePatient", "UpdatePatient"}

ByIdOps == {"GetPatient", "UpdatePatient",
            "GetLifestyleEntry", "UpdateLifestyleEntry", "DeleteLifestyleEntry",
            "GetMedicalHistoryEntry", "UpdateMedicalHistoryEntry",
            "DeleteMedicalHistoryEntry"}

\* the not-found sentinel of the entity an operation addresses
NotFoundOf(op) ==
    IF op \in LifestyleOps THEN ErrLifestyleEntryNotFound
    ELSE IF op \in MedicalHistoryOps THEN ErrMedicalHistoryEntryNotFound
    ELSE ErrPatientNotFound

\* the request passes the checks a handler makes before it touches the store
WellFormed(r, t) ==
    /\ ~FailsValidation(r.op, r.in, t)
    /\ r.op = "UpdatePatient" => AgeMatchesDateOfBirth(r.in.Age, r.in.DateOfBirth, t)

\* C4: when the addressed id is not stored (the request being valid and the
\* database answering), GetPatient, UpdatePatient and Get, Update and Delete
\* of a lifestyle or medical-history entry end with an error that errors.Is
\* matches to the entity's not-found sentinel, without a call of the
\* repository's Update or Delete, the tables being as they were.
C4_MissingIdIsNotFound ==
    [][\A w \in Workers :
          LET r == rq'[w]
          IN  (/\ rq[w].pc = "idle"
               /\ r.op \in ByIdOps
               /\ r.id \notin DOMAIN StoreOf(r.op)
               /\ ~r.fault
               /\ WellFormed(r, now))
              => /\ r.pc = "done"
                 /\ r.err # Nil
                 /\ ErrorsIs(r.err, NotFoundOf(r.op))
                 /\ ~Called(r, MutatingCalls)
                 /\ StoreUnchanged]_vars

\* UpdatePatient of a patient that is not stored has ended with the wrapped
\* sentinel: an error that matches ErrPatientNotFound without being it
C4_Witness ==
    \E w \in Workers :
        /\ rq[w].pc = "done"
        /\ rq[w].op = "UpdatePatient"
        /\ rq[w].id \notin DOMAIN patients
        /\ ErrorsIs(rq[w].err, ErrPatientNotFound)
        /\ rq[w].err # ErrPatientNotFound
        /\ ~Called(rq[w], MutatingCalls)

\* Create and List of the entries of a patient
OwnerScopedOps == {"CreateLifestyleEntry", "GetLifestyleEntries",
                   "CreateMedicalHistoryEntry", "GetMedicalHistoryEntries"}

\* every stored entry references a stored patient
EntriesHaveOwners ==
    /\ \A id \in DOMAIN patient_lifestyle :
           patient_lifestyle[id].patient_id \in DOMAIN patients
    /\ \A id \in DOMAIN patient_medical_history :
           /\ patient_medical_history[id].patient_id # <<>>
           /\ patient_medical_history[id].patient_id[1] \in DOMAIN patients

UpdateOps == {"UpdatePatient", "UpdateLifestyleEntry", "UpdateMedicalHistoryEntry"}

\* the rule of optional overwrite, field by field of the request type
OptionalOverwrite(op, loaded, req) ==
    LET rules == RulesOf(op)
        kind == [f \in {rules[i].field : i \in 1..Len(rules)} |->
                    (CHOOSE i \in 1..Len(rules) : rules[i].field = f)]
    IN  [f \in DOMAIN loaded |->
            IF f \in DOMAIN req /\ ~IsZeroVal(rules[kind[f]].kind, req[f])
            THEN req[f]
            ELSE loaded[f]]

\* every field of the request is its zero value
AllEmpty(op, req) ==
    \A i \in 1..Len(RulesOf(op)) :
        IsZeroVal(RulesOf(op)[i].kind, req[RulesOf(op)[i].field])

\* the row is as it was but for updated_at
SameButUpdatedAt(old, new) == new = [old EXCEPT !.updated_at = new.updated_at]

RoleHolders == {"dr", "ck"}
ReadAllHolders == {"ra", "kv"}

\* C7: Authorize allows a caller whose identity is the text of the owner
\* patient id, and then makes no profile lookup; otherwise, the identity
\* provider answering, it makes one lookup and allows exactly the callers
\* whose profile holds the role physician or clerk or whose metadata
\* contains patient:read_all, and denies the others without an error.
\* Identity "2" is allowed on patient 2 and identity "3" is denied on it.
C7_GateDecision ==
    \A w \in Workers :
        (rq[w].pc = "done" /\ rq[w].op = "Authorize")
        => LET userID == rq[w].caller
               allowed == rq[w].out[1]
           IN  /\ userID = Sprint(rq[w].id)
                    => allowed /\ rq[w].err = Nil /\ rq[w].calls = <<>>
               /\ (userID # Sprint(rq[w].id) /\ rq[w].idp = "ok")
                    => /\ allowed <=> userID \in RoleHolders \cup ReadAllHolders
                       /\ rq[w].err = Nil
                       /\ rq[w].calls = <<Call("clerk.User.GetUser", userID)>>
               /\ (userID = "2" /\ rq[w].id = 2) => allowed
               /\ (userID = "3" /\ rq[w].id = 2) => ~allowed

\* the gate has allowed identity "2" on patient 2 without a profile lookup
C7_Witness ==
    \E w \in Workers :
        /\ rq[w].pc = "done"
        /\ rq[w].op = "Authorize"
        /\ rq[w].caller = "2"
        /\ rq[w].id = 2
        /\ rq[w].out = <<TRUE>>
        /\ rq[w].calls = <<>>

\* C8: when the identity provider fails while the gate of an Update or a
\* Delete resolves the caller's profile, the operation ends with an error
\* that is not ErrForbidden.
C8_ProfileFailureIsNotForbidden ==
    \A w \in Workers :
        (/\ rq[w].pc = "done"
         /\ rq[w].op \in GatedOps
         /\ Called(rq[w], {"authorize"})
         /\ Authorize(rq[w].caller, rq[w].loaded.PatientID, rq[w].idp).err # Nil)
        => /\ rq[w].err # Nil
           /\ ~ErrorsIs(rq[w].err, ErrForbidden)

\* the gate of an Update or a Delete has run into a failing identity provider
C8_Witness ==
    \E w \in Workers :
        /\ rq[w].pc = "done"
        /\ rq[w].op \in GatedOps
        /\ Called(rq[w], {"authorize"})
        /\ Authorize(rq[w].caller, rq[w].loaded.PatientID, rq[w].idp).err # Nil

\* worker w's step is the successful INSERT of a Create of service ops
InsertedBy(w, ops) ==
    /\ rq[w].pc = "insert"
    /\ rq[w].op \in ops
    /\ rq'[w].pc = "done"
    /\ rq'[w].err = Nil

\* worker w's step is the successful DELETE of entry id by a Delete of ops
DeletedBy(w, ops, id) ==
    /\ rq[w].pc = "delete"
    /\ rq[w].op \in ops
    /\ rq[w].id = id
    /\ rq'[w].pc = "done"
    /\ rq'[w].err = Nil

\* the ids of a table change only by a successful Create, which adds the
\* next id of the table's sequence, and by a successful Delete of that id;
\* an id the sequence has passed that is not stored stays not stored; a
\* Delete that succeeds leaves its id not stored
OnlyCreateAndDelete(tbl, after, seq, seqAfter, ops) ==
    /\ seqAfter >= seq
    /\ \A id \in DOMAIN after \ DOMAIN tbl :
           /\ id = seq
           /\ seqAfter > id
           /\ \E w \in Workers : InsertedBy(w, ops)
    /\ \A id \in DOMAIN tbl \ DOMAIN after :
           \E w \in Workers : DeletedBy(w, ops, id)
    /\ \A id \in 1..(seq - 1) : id \notin DOMAIN tbl => id \notin DOMAIN after
    /\ \A w \in Workers, id \in 1..seq : DeletedBy(w, ops, id) => id \notin DOMAIN after

\* C9: with requests running side by side, a lifestyle or medical-history
\* entry comes to exist only by a successful Create, under an id never used
\* before, and ceases to exist only by a successful Delete; after a
\* successful Delete of an id no step of any request, the Update that loaded
\* the entry before the Delete included, stores a row under that id again.
C9_NoResurrection ==
    [][/\ OnlyCreateAndDelete(patient_lifestyle, patient_lifestyle',
                              serial.patient_lifestyle, serial'.patient_lifestyle,
                              LifestyleOps)
       /\ OnlyCreateAndDelete(patient_medical_history, patient_medical_history',
                              serial.patient_medical_history,
                              serial'.patient_medical_history, MedicalHistoryOps)]_vars

\* a Delete has succeeded and an Update of the same id, which had loaded the
\* entry, has called the repository afterwards; the id is not stored
C9_Witness ==
    \E w1 \in Workers, w2 \in Workers :
        /\ rq[w1].op \in {"DeleteLifestyleEntry", "DeleteMedicalHistoryEntry"}
        /\ rq[w1].pc = "done"
        /\ rq[w1].err = Nil
        /\ rq[w2].op \in {"UpdateLifestyleEntry", "UpdateMedicalHistoryEntry"}
        /\ rq[w2].id = rq[w1].id
        /\ rq[w2].loaded # NoEntry
        /\ Called(rq[w2], MutatingCalls)
        /\ rq[w2].id \notin DOMAIN StoreOf(rq[w2].op)

\* C10: when the UPDATE of an Update of a lifestyle or medical-history entry
\* runs after another request has deleted the entry the Update had loaded
\* (the database answering), the Update ends with an error that errors.Is
\* matches to the entity's not-found sentinel.
C10_DeletedBeforePersist ==
    [][\A w \in Workers :
          LET r == rq'[w]
          IN  (/\ rq[w].pc = "update"
               /\ rq[w].op \in {"UpdateLifestyleEntry", "UpdateMedicalHistoryEntry"}
               /\ r.pc = "done"
               /\ rq[w].id \notin DOMAIN StoreOf(rq[w].op)
               /\ ~r.fault)
              => /\ r.err # Nil
                 /\ ErrorsIs(r.err, NotFoundOf(r.op))
                 /\ r.out = NoEntry]_vars

\* a medical-history Update that had loaded its entry has ended with the
\* wrapped sentinel after the entry was deleted under it
C10_Witness ==
    \E w \in Workers :
        /\ rq[w].op = "UpdateMedicalHistoryEntry"
        /\ rq[w].pc = "done"
        /\ rq[w].loaded # NoEntry
        /\ Len(rq[w].calls) = 3
        /\ ~rq[w].fault
        /\ ErrorsIs(rq[w].err, ErrMedicalHistoryEntryNotFound)
        /\ rq[w].err # ErrMedicalHistoryEntryNotFound

\* C11: when the DELETE of a Delete of a lifestyle or medical-history entry
\* runs after another request has removed the entry the Delete had loaded
\* (the database answering), the Delete ends with the entity's not-found
\* error; so of two Deletes of one id that both loaded the entry at most one
\* ends without error.
C11_DeletedBeforeDelete ==
    [][\A w \in Workers :
          LET r == rq'[w]
          IN  (/\ rq[w].pc = "delete"
               /\ rq[w].op \in {"DeleteLifestyleEntry", "DeleteMedicalHistoryEntry"}
               /\ r.pc = "done"
               /\ rq[w].id \notin DOMAIN StoreOf(rq[w].op)
               /\ ~r.fault)
              => /\ r.err # Nil
                 /\ ErrorsIs(r.err, NotFoundOf(r.op))]_vars

\* two Deletes of one id, both having loaded the entry and called the
\* repository's Delete with the database answering, have both ended
C11_Witness ==
    \E w1 \in Workers, w2 \in Workers :
        /\ w1 # w2
        /\ rq[w1].op \in {"DeleteLifestyleEntry", "DeleteMedicalHistoryEntry"}
        /\ rq[w2].op = rq[w1].op
        /\ rq[w2].id = rq[w1].id
        /\ \A w \in {w1, w2} :
               /\ rq[w].pc = "done"
               /\ rq[w].loaded # NoEntry
               /\ Len(rq[w].calls) = 3
               /\ ~rq[w].fault

\* the fields a request of an entry service carries
EntryFields(op) ==
    IF op \in LifestyleOps THEN {"LifestyleFactor", "Value", "StartDate", "EndDate"}
    ELSE {"Condition", "DiagnosisDate", "Status", "Details"}

\* the value a request field has once stored: a date is kept as its day
AsStored(f, v) ==
    IF f \in {"StartDate", "EndDate", "DiagnosisDate"} THEN Date(v) ELSE v

\* a stored row as the repository of its service reads it
EntryOf(op, row) ==
    IF op \in LifestyleOps THEN convertDbLifestyleEntryToDomain(row)
    ELSE convertDbMedicalHistoryEntryToDomain(row)

\* worker w's step is the successful UPDATE of an Update of an entry
UpdatedBy(w) ==
    /\ rq[w].pc = "update"
    /\ rq[w].op \in {"UpdateLifestyleEntry", "UpdateMedicalHistoryEntry"}
    /\ rq'[w].pc = "done"
    /\ rq'[w].err = Nil

\* the step leaves in the table of service ops, for the entry of each Update
\* that persists in it, the merged record of that Update, and changes the
\* request fields of no other stored row (a date is stored as its day)
LastWriterWins(tbl, after, ops) ==
    /\ \A w \in Workers :
           (UpdatedBy(w) /\ rq[w].op \in ops) =>
               /\ rq[w].id \in DOMAIN after
               /\ \A f \in EntryFields(rq[w].op) :
                      EntryOf(rq[w].op, after[rq[w].id])[f] = AsStored(f, rq[w].merged[f])
               /\ \A f \in EntryFields(rq[w].op) :
                      rq[w].merged[f] \in {rq[w].loaded[f], rq[w].in[f]}
               /\ rq'[w].out = EntryOf(rq[w].op, after[rq[w].id])
    /\ \A id \in DOMAIN tbl \cap DOMAIN after :
           after[id] # tbl[id] =>
               \E w \in Workers : UpdatedBy(w) /\ rq[w].op \in ops /\ rq[w].id = id

\* every request field of every stored entry, and of every entry a request
\* in flight has loaded, holds a value of a create or an update request (a
\* date as its day)
ValuesFromRequests ==
    /\ \A id \in DOMAIN patient_lifestyle, f \in EntryFields("UpdateLifestyleEntry") :
           EntryOf("UpdateLifestyleEntry", patient_lifestyle[id])[f] \in
               {AsStored(f, q[f]) :
                    q \in RaceCreateLifestyleRequests \cup RaceUpdateLifestyleRequests}
    /\ \A id \in DOMAIN patient_medical_history,
          f \in EntryFields("UpdateMedicalHistoryEntry") :
           EntryOf("UpdateMedicalHistoryEntry", patient_medical_history[id])[f] \in
               {AsStored(f, q[f]) : q \in RaceCreateMedicalHistoryRequests
                                            \cup RaceUpdateMedicalHistoryRequests}

\* C12: Updates of one entry running side by side are last-writer-wins: the
\* UPDATE of each successful Update leaves the stored record equal to that
\* Update's merged record (its loaded record overwritten by its non-empty
\* request fields), whatever another Update stored in between; a stored
\* record changes by no other step; and every stored field holds a value of
\* the create request or of one of the update requests.
C12_LastWriterWins ==
    /\ []ValuesFromRequests
    /\ [][/\ LastWriterWins(patient_lifestyle, patient_lifestyle', LifestyleOps)
          /\ LastWriterWins(patient_medical_history, patient_medical_history',
                            MedicalHistoryOps)]_vars

\* two Updates of one lifestyle entry have both succeeded, one asking for a
\* new factor and one for a new value; the stored record is the merged record
\* of the one that persisted last and has lost the other's change
C12_Witness ==
    \E w1 \in Workers, w2 \in Workers :
        /\ rq[w1].op = "UpdateLifestyleEntry" /\ rq[w2].op = "UpdateLifestyleEntry"
        /\ rq[w1].id = rq[w2].id
        /\ rq[w1].pc = "done" /\ rq[w2].pc = "done"
        /\ rq[w1].err = Nil /\ rq[w2].err = Nil
        /\ rq[w1].in.LifestyleFactor = "Exercise"
        /\ rq[w2].in.Value = "Keto"
        /\ rq[w1].id \in DOMAIN patient_lifestyle
        /\ patient_lifestyle[rq[w1].id].lifestyle_factor = "Diet"
        /\ patient_lifestyle[rq[w1].id].value = <<"Keto">>

\* the tables hold, for a patient id, a patient and no entry of a service
StoredPatient(id) == id \in DOMAIN patients
NoLifestyleOf(id) ==
    \A i \in DOMAIN patient_lifestyle : patient_lifestyle[i].patient_id # id
NoMedicalHistoryOf(id) ==
    \A i \in DOMAIN patient_medical_history :
        patient_medical_history[i].patient_id # <<id>>

\* C13: the response of GET lifestyle entries of a patient (the database
\* answering) is 200 with the body [] when the patient is stored and has no
\* lifestyle entry, and 404 when no such patient is stored; no 200 response
\* has the body null.
C13_EmptyListIs200 ==
    \A w \in Workers :
        (rq[w].pc = "done" /\ rq[w].op = "GetLifestyleEntries") =>
            LET resp == LifestyleHandlerGetLifestyleEntries(rq[w].out, rq[w].err)
            IN  /\ (~rq[w].fault /\ StoredPatient(rq[w].id) /\ NoLifestyleOf(rq[w].id))
                       => resp.status = 200 /\ resp.body = JSONArray(<<>>)
                /\ (~rq[w].fault /\ ~StoredPatient(rq[w].id)) => resp.status = 404
                /\ resp.status = 200 => resp.body # JSONNull

\* a listing of a stored patient without lifestyle entries has returned from
\* the service, which ran both of its statements
C13_Witness ==
    \E w \in Workers :
        /\ rq[w].pc = "done" /\ rq[w].op = "GetLifestyleEntries"
        /\ ~rq[w].fault
        /\ StoredPatient(rq[w].id) /\ NoLifestyleOf(rq[w].id)
        /\ Len(rq[w].calls) = 2
        /\ ErrorsIs(rq[w].err, ErrLifestyleEntryNotFound)

\* C14: the response of GET medical-history entries of a patient (the
\* database answering) is 200 with an empty array when the patient is stored
\* and has no medical-history entry, and it is 404 only when no such patient
\* is stored.
C14_EmptyHistoryIs200 ==
    \A w \in Workers :
        (rq[w].pc = "done" /\ rq[w].op = "GetMedicalHistoryEntries" /\ ~rq[w].fault) =>
            LET resp == MedicalHistoryHandlerGetMedicalHistoryEntries(rq[w].out, rq[w].err)
            IN  /\ (StoredPatient(rq[w].id) /\ NoMedicalHistoryOf(rq[w].id))
                       => resp.status = 200 /\ resp.body = JSONArray(<<>>)
                /\ resp.status = 404 => ~StoredPatient(rq[w].id)

\* a listing of a stored patient without medical-history entries has
\* returned from the service, which ran both of its statements
C14_Witness ==
    \E w \in Workers :
        /\ rq[w].pc = "done" /\ rq[w].op = "GetMedicalHistoryEntries"
        /\ ~rq[w].fault
        /\ StoredPatient(rq[w].id) /\ NoMedicalHistoryOf(rq[w].id)
        /\ Len(rq[w].calls) = 2

\* the response to a finished medical-history Create or Update
MedicalHistoryWriteResponse(r) ==
    IF r.op = "CreateMedicalHistoryEntry"
    THEN MedicalHistoryHandlerCreateMedicalHistoryEntry(r.out, r.err)
    ELSE MedicalHistoryHandlerUpdateMedicalHistoryEntry(r.out, r.err)

\* C15: when the medical-history service rejects the payload of a Create or
\* an Update by validation, the response is 400 (and so never 500).
C15_ValidationIs400 ==
    \A w \in Workers :
        (/\ rq[w].pc = "done"
         /\ rq[w].op \in {"CreateMedicalHistoryEntry", "UpdateMedicalHistoryEntry"}
         /\ ErrorsAsValidation(rq[w].err))
            => MedicalHistoryWriteResponse(rq[w]).status = 400

\* a medical-history Create whose status is outside the allowed set and an
\* Update with a future diagnosis date: the service has rejected the payload
\* before any repository call
C15_Witness ==
    \E w \in Workers :
        /\ rq[w].pc = "done"
        /\ rq[w].op \in {"CreateMedicalHistoryEntry", "UpdateMedicalHistoryEntry"}
        /\ FailsValidation(rq[w].op, rq[w].in, now)
        /\ rq[w].in.Condition # ""
        /\ ErrorsAsValidation(rq[w].err)
        /\ rq[w].err.code = "INVALID_MEDICAL_HISTORY_DATA"
        /\ rq[w].calls = <<>>
        /\ MedicalHistoryWriteResponse(rq[w]).status = 500

\* worker w's step is the successful UPDATE of an Update of service table tbl
Persisted(w, op) ==
    /\ rq[w].pc = "update"
    /\ rq[w].op = op
    /\ rq'[w].pc = "done"
    /\ rq'[w].err = Nil

\* the row the step leaves under id has updated_at at the time of the step,
\* later than it was, and created_at as it was
Touched(tbl, after, id) ==
    /\ id \in DOMAIN tbl /\ id \in DOMAIN after
    /\ after[id].updated_at = <<now>>
    /\ tbl[id].updated_at # <<>>
    /\ after[id].updated_at[1] > tbl[id].updated_at[1]
    /\ after[id].created_at = tbl[id].created_at

\* C16: the UPDATE of every successful Update of a patient, a
\* medical-history entry or a lifestyle entry leaves the record's updated_at
\* at the time of the update, later than its value before, and its
\* created_at unchanged.
C16_UpdateSetsUpdatedAt ==
    [][\A w \in Workers :
          /\ Persisted(w, "UpdatePatient") => Touched(patients, patients', rq[w].id)
          /\ Persisted(w, "UpdateMedicalHistoryEntry") =>
                 Touched(patient_medical_history, patient_medical_history', rq[w].id)
          /\ Persisted(w, "UpdateLifestyleEntry") =>
                 Touched(patient_lifestyle, patient_lifestyle', rq[w].id)]_vars

\* a lifestyle Update with a new value has succeeded on an entry created at
\* an earlier instant
C16_Witness ==
    \E w \in Workers :
        /\ rq[w].op = "UpdateLifestyleEntry"
        /\ rq[w].pc = "done"
        /\ rq[w].err = Nil
        /\ rq[w].in.Value # ""
        /\ rq[w].id \in DOMAIN patient_lifestyle
        /\ patient_lifestyle[rq[w].id].value = <<rq[w].in.Value>>
        /\ patient_lifestyle[rq[w].id].created_at[1] < now - 1

\* the step leaves the patient_id of every row that stays stored as it was
OwnerKept(tbl, after) ==
    \A id \in DOMAIN tbl \cap DOMAIN after : after[id].patient_id = tbl[id].patient_id

\* C17: no step of any operation, whatever the request of an Update, changes
\* the patient_id of a stored lifestyle or medical-history entry; the record
\* an Update hands to the repository and the record it returns carry the
\* patient_id of the loaded entry.
C17_OwnerImmutable ==
    [][/\ OwnerKept(patient_lifestyle, patient_lifestyle')
       /\ OwnerKept(patient_medical_history, patient_medical_history')
       /\ \A w \in Workers :
              (/\ rq[w].pc = "update"
               /\ rq[w].op \in {"UpdateLifestyleEntry", "UpdateMedicalHistoryEntry"}
               /\ rq'[w].pc = "done" /\ rq'[w].err = Nil)
                  => /\ rq[w].merged.PatientID = rq[w].loaded.PatientID
                     /\ rq'[w].out.PatientID = rq[w].loaded.PatientID]_vars

\* an Update with a non-empty request has succeeded on an entry of patient 2
\* and the entry is still stored under patient 2
C17_Witness ==
    \E w \in Workers :
        /\ rq[w].op = "UpdateMedicalHistoryEntry"
        /\ rq[w].pc = "done"
        /\ rq[w].err = Nil
        /\ rq[w].in.Condition # ""
        /\ rq[w].id \in DOMAIN patient_medical_history
        /\ patient_medical_history[rq[w].id].condition = rq[w].in.Condition
        /\ patient_medical_history[rq[w].id].patient_id = <<2>>

\* the request ended with the ValidationError of the consistency check
Inconsistent(r) ==
    r.pc = "done" /\ ErrorsAsValidation(r.err) /\ r.err.code = "INCONSISTENT_DATA"

\* C18: a CreatePatient or UpdatePatient whose request has a non-zero age
\* and a non-zero date of birth ends with ValidationError INCONSISTENT_DATA
\* exactly when the age differs from the year difference, less one when the
\* current day of the year is before that of the birth date; it then makes
\* no repository call; and a request with only one of the two never ends
\* with INCONSISTENT_DATA.
C18_AgeConsistency ==
    [][\A w \in Workers :
          LET r == rq'[w]
          IN  (rq[w].pc = "idle" /\ r.op \in {"CreatePatient", "UpdatePatient"}) =>
                  /\ (r.in.Age # 0 /\ ~IsZero(r.in.DateOfBirth)) =>
                         (Inconsistent(r) <=>
                              ~AgeMatchesDateOfBirth(r.in.Age, r.in.DateOfBirth, now))
                  /\ Inconsistent(r) => r.calls = <<>>
                  /\ (r.in.Age = 0 \/ IsZero(r.in.DateOfBirth)) => ~Inconsistent(r)]_vars

\* an UpdatePatient with an age and a date of birth that disagree has ended
\* with a validation error and no repository call
C18_Witness ==
    \E w \in Workers :
        /\ rq[w].op = "UpdatePatient"
        /\ rq[w].pc = "done"
        /\ rq[w].in.Age # 0 /\ ~IsZero(rq[w].in.DateOfBirth)
        /\ ~AgeMatchesDateOfBirth(rq[w].in.Age, rq[w].in.DateOfBirth, now)
        /\ ErrorsAsValidation(rq[w].err)
        /\ rq[w].calls = <<>>

\* the operations that answer a failed validation with a *ValidationError
DetailingOps == {"CreateMedicalHistoryEntry", "UpdateMedicalHistoryEntry",
                 "CreatePatient", "UpdatePatient"}

\* the positions of the fields of a request type of which some rule fails
FailingFields(op, req, t) ==
    {i \in 1..Len(RulesOf(op)) :
        FirstFailingTag(RulesOf(op)[i].tags, RulesOf(op)[i].kind,
                        req[RulesOf(op)[i].field], t) # ""}

\* the detail line of the field at position i of a request type
DetailOf(op, req, t, i) ==
    "Field " \o RulesOf(op)[i].field \o " failed validation for tag "
        \o FirstFailingTag(RulesOf(op)[i].tags, RulesOf(op)[i].kind,
                           req[RulesOf(op)[i].field], t)

\* C19: when the request of a Create or Update of a medical-history entry or
\* a patient violates rules on one or several fields, the operation ends
\* with one ValidationError that has a code and a detail list holding exactly
\* one line for every failing field, naming the field and its failing rule,
\* in the order of the fields.
C19_AllFailingFieldsReported ==
    [][\A w \in Workers :
          LET r == rq'[w]
              bad == FailingFields(r.op, r.in, now)
          IN  (rq[w].pc = "idle" /\ r.op \in DetailingOps /\ bad # {}) =>
                  /\ r.pc = "done"
                  /\ ErrorsAsValidation(r.err)
                  /\ r.err.code \in {"INVALID_MEDICAL_HISTORY_DATA", "INVALID_PATIENT_DATA"}
                  /\ Len(r.err.details) = Cardinality(bad)
                  /\ \A i \in bad :
                         \E k \in 1..Len(r.err.details) :
                             /\ r.err.details[k] = DetailOf(r.op, r.in, now, i)
                             /\ k = Cardinality({j \in bad : j <= i})]_vars

\* a medical-history Create with the condition missing and a status outside
\* the allowed set (and a future diagnosis date) has ended with details for
\* Condition, DiagnosisDate and Status
C19_Witness ==
    \E w \in Workers :
        /\ rq[w].op = "CreateMedicalHistoryEntry"
        /\ rq[w].pc = "done"
        /\ rq[w].in.Condition = "" /\ rq[w].in.Status = "Fake"
        /\ ErrorsAsValidation(rq[w].err)
        /\ rq[w].err.details =
               << "Field Condition failed validation for tag required",
                  "Field DiagnosisDate failed validation for tag pastdate",
                  "Field Status failed validation for tag oneof" >>

\* the Get that reads one record of the service of a Create
GetOf(op) ==
    IF op = "CreateLifestyleEntry" THEN "GetLifestyleEntry" ELSE "GetMedicalHistoryEntry"

\* the id a Create returned
ReturnedID(op, entry) ==
    IF op = "CreateLifestyleEntry" THEN entry.PatientLifestyleID
    ELSE entry.PatientMedicalHistoryID

\* worker g holds the answer of a Get by the id that the Create of worker c
\* returned, and no statement has written to the database since that Create
GetFollowsCreate(c, g) ==
    /\ rq[c].pc = "done" /\ rq[g].pc = "done"
    /\ rq[c].op \in {"CreateLifestyleEntry", "CreateMedicalHistoryEntry"}
    /\ rq[c].err = Nil /\ rq[g].err = Nil
    /\ rq[g].op = GetOf(rq[c].op)
    /\ rq[g].id = ReturnedID(rq[c].op, rq[c].out)
    /\ now = rq[c].out.CreatedAt + 1

\* the record of Get g has the request fields of Create c as requested
SameRequestFields(c, g) ==
    \A f \in EntryFields(rq[c].op) : rq[g].out[f] = rq[c].in[f]

\* C20: a Get by the id a successful Create returned, with no write between
\* the two, returns a record whose request-supplied fields all equal the
\* values of the create request and whose owner is the patient id given to
\* the Create.
C20_RoundTrip ==
    \A c \in Workers, g \in Workers :
        GetFollowsCreate(c, g) =>
            /\ SameRequestFields(c, g)
            /\ rq[g].out.PatientID = rq[c].id

\* the same with every date of the request taken at the midnight of its day
C20_RoundTripOfDays ==
    \A c \in Workers, g \in Workers :
        GetFollowsCreate(c, g) =>
            /\ \A f \in EntryFields(rq[c].op) :
                   rq[g].out[f] = AsStored(f, rq[c].in[f])
            /\ rq[g].out.PatientID = rq[c].id

\* a lifestyle entry was created with a start date at noon and read back
C20_Witness ==
    \E c \in Workers, g \in Workers :
        /\ GetFollowsCreate(c, g)
        /\ rq[c].op = "CreateLifestyleEntry"
        /\ rq[c].in.StartDate = PastNoon
        /\ rq[g].out.StartDate = PastDay2
        /\ rq[g].out.LifestyleFactor = "Sleep"
        /\ rq[g].out.PatientID = 2

\* the sentinel errors of the domain
Sentinels ==
    {ErrPatientNotFound, ErrMedicalHistoryEntryNotFound, ErrInvalidMedicalHistoryData,
     ErrInvalidInput, ErrLifestyleEntryNotFound, ErrForbidden}

\* an error that matches no sentinel and is no ValidationError
Opaque(err) ==
    /\ err # Nil
    /\ ~ErrorsAsValidation(err)
    /\ \A e \in Sentinels : ~ErrorsIs(err, e)

RepoCreateOps ==
    {"patientRepo.CreatePatient", "lifestyleRepo.CreateLifestyleEntry",
     "medicalHistoryRepo.CreateMedicalHistoryEntry"}

\* the patient has a label of its enum type in every enum column it fills
WellFormedPatient(p) ==
    /\ p.Sex \in sex_enum
    /\ p.PreferredCommunication \in preferred_communication_enum \cup {""}
    /\ p.SocioeconomicStatus \in socioeconomic_status_enum \cup {""}

\* the call r inserts a patient whose email address a stored patient has
DuplicateKey(r) ==
    /\ r.op = "patientRepo.CreatePatient"
    /\ ~r.fault
    /\ WellFormedPatient(r.in)
    /\ r.in.EmailAddress # ""
    /\ \E i \in DOMAIN patients : patients[i].email_address = <<r.in.EmailAddress>>

\* the call r inserts a row that references a user or a patient not stored
MissingOwner(r) ==
    /\ ~r.fault
    /\ ~DuplicateKey(r)
    /\ IF r.op = "patientRepo.CreatePatient"
       THEN WellFormedPatient(r.in) /\ r.in.UserID \notin Users
       ELSE r.in.PatientID \notin DOMAIN patients

\* the error the same call returns when the driver fails
GenericError(r) ==
    CASE r.op = "patientRepo.CreatePatient" -> RepoCreatePatient(r.in, TRUE).err
      [] r.op = "lifestyleRepo.CreateLifestyleEntry" ->
             RepoCreateLifestyleEntry(r.in, TRUE).err
      [] OTHER -> RepoCreateMedicalHistoryEntry(r.in, TRUE).err

\* the Create of a repository answers a duplicate key with an error whose
\* text is not that of its generic failure, a missing owner with
\* ErrPatientNotFound, and every other failure with an opaque error
SurfacesByCause(r) ==
    /\ DuplicateKey(r) => r.err # Nil /\ r.err.wrap # GenericError(r).wrap
    /\ MissingOwner(r) => ErrorsIs(r.err, ErrPatientNotFound)
    /\ (r.err # Nil /\ ~DuplicateKey(r) /\ ~MissingOwner(r)) => Opaque(r.err)

\* C21: on Create, a repository failure caused by a duplicate unique key
\* surfaces as an error distinguishable from the generic internal one, a
\* foreign-key violation surfaces as the owner-not-found error, and every
\* other repository failure surfaces as an opaque internal error.
C21_ConstraintErrors ==
    [][\A w \in Workers :
          (rq[w].pc = "idle" /\ rq'[w].op \in RepoCreateOps) => SurfacesByCause(rq'[w])]_vars

\* the same for the patient and the medical-history repositories only
C21_ConstraintErrorsButLifestyle ==
    [][\A w \in Workers :
          (rq[w].pc = "idle"
           /\ rq'[w].op \in RepoCreateOps \ {"lifestyleRepo.CreateLifestyleEntry"})
              => SurfacesByCause(rq'[w])]_vars

\* a lifestyle entry was inserted for a patient that is not stored, and the
\* repository answered with an error that is not ErrPatientNotFound
C21_Witness ==
    \E w \in Workers :
        /\ rq[w].pc = "done"
        /\ rq[w].op = "lifestyleRepo.CreateLifestyleEntry"
        /\ ~rq[w].fault
        /\ rq[w].in.PatientID \notin DOMAIN patients
        /\ IsPgError([rq[w].err EXCEPT !.wrap = <<>>], "23503")
        /\ Opaque(rq[w].err)

\* C22: PatientRepositoryImpl.UpdatePatient returns an error matching
\* ErrPatientNotFound whenever the UPDATE finds no row for the patient id,
\* and never the storage's own sql.ErrNoRows.
C22_UpdateMissingIsNotFound ==
    [][\A w \in Workers :
          LET r == rq'[w]
          IN  (/\ rq[w].pc = "idle"
               /\ r.op = "patientRepo.UpdatePatient"
               /\ ~r.fault
               /\ r.id \notin DOMAIN patients)
                  => /\ ErrorsIs(r.err, ErrPatientNotFound)
                     /\ ~ErrorsIs(r.err, SqlErrNoRows)]_vars

\* UpdatePatient was called for an id with no row and returned the wrapped
\* sql.ErrNoRows of the statement
C22_Witness ==
    \E w \in Workers :
        /\ rq[w].pc = "done"
        /\ rq[w].op = "patientRepo.UpdatePatient"
        /\ ~rq[w].fault
        /\ rq[w].id \notin DOMAIN patients
        /\ ErrorsIs(rq[w].err, SqlErrNoRows)
        /\ rq[w].out = NoEntry

\* C23: UpdateLifestyleEntry with a request whose lifestyle_factor is empty
\* returns ErrInvalidInput at once, and neither GetLifestyleEntry nor
\* UpdateLifestyleEntry of the repository is ever called for it.
C23_EmptyFactorIsInvalid ==
    /\ [](\A w \in Workers :
             (rq[w].op = "UpdateLifestyleEntry" /\ rq[w].in.LifestyleFactor = "")
                 => ~Called(rq[w], {"lifestyleRepo.GetLifestyleEntry",
                                    "lifestyleRepo.UpdateLifestyleEntry"}))
    /\ [][\A w \in Workers :
             LET r == rq'[w]
             IN  (/\ rq[w].pc = "idle"
                  /\ r.op = "UpdateLifestyleEntry"
                  /\ r.in.LifestyleFactor = "")
                     => r.pc = "done" /\ ErrorsIs(r.err, ErrInvalidInput)]_vars

\* an Update of a lifestyle entry with an empty lifestyle_factor went through
\* the repository's lookup and UPDATE and succeeded
C23_Witness ==
    \E w \in Workers :
        /\ rq[w].pc = "done"
        /\ rq[w].op = "UpdateLifestyleEntry"
        /\ rq[w].in.LifestyleFactor = ""
        /\ rq[w].in.Value = "Daily"
        /\ rq[w].err = Nil
        /\ Called(rq[w], {"lifestyleRepo.GetLifestyleEntry"})
        /\ Called(rq[w], {"lifestyleRepo.UpdateLifestyleEntry"})
        /\ rq[w].out.Value = "Daily"

\* the operations a handler serves, and the response of the handler of a
\* finished request
HandledOps ==
    {"CreateLifestyleEntry", "GetLifestyleEntries", "UpdateLifestyleEntry",
     "DeleteLifestyleEntry", "CreateMedicalHistoryEntry", "GetMedicalHistoryEntries",
     "UpdateMedicalHistoryEntry", "DeleteMedicalHistoryEntry", "CreatePatient",
     "GetPatient", "UpdatePatient"}

Respond(r) ==
    CASE r.op = "CreateLifestyleEntry" -> LifestyleHandlerCreateLifestyleEntry(r.out, r.err)
      [] r.op = "GetLifestyleEntries" -> LifestyleHandlerGetLifestyleEntries(r.out, r.err)
      [] r.op = "UpdateLifestyleEntry" -> LifestyleHandlerUpdateLifestyleEntry(r.out, r.err)
      [] r.op = "DeleteLifestyleEntry" -> LifestyleHandlerDeleteLifestyleEntry(r.err)
      [] r.op = "CreateMedicalHistoryEntry" ->
             MedicalHistoryHandlerCreateMedicalHistoryEntry(r.out, r.err)
      [] r.op = "GetMedicalHistoryEntries" ->
             MedicalHistoryHandlerGetMedicalHistoryEntries(r.out, r.err)
      [] r.op = "UpdateMedicalHistoryEntry" ->
             MedicalHistoryHandlerUpdateMedicalHistoryEntry(r.out, r.err)
      [] r.op = "DeleteMedicalHistoryEntry" ->
             MedicalHistoryHandlerDeleteMedicalHistoryEntry(r.err)
      [] r.op = "CreatePatient" -> PatientHandlerCreatePatient(r.out, r.err)
      [] r.op = "GetPatient" -> PatientHandlerGetPatient(r.out, r.err)
      [] OTHER -> PatientHandlerUpdatePatient(r.out, r.err)

\* the texts an error is made of
TextsOf(err) ==
    {ErrorString(err), err.base} \cup {err.wrap[i] : i \in 1..Len(err.wrap)}

\* the errors CreatePatient of the service returns for the failures of the
\* repository's CreatePatient (each wrapped as "create patient error")
CreatePatientFailures ==
    {e \in {Errorf("create patient error", RepoCreatePatient(p, f).err) :
                p \in RepoPatients, f \in Faults} : Opaque(e)}

DocumentedPatient(req, t) ==
    /\ req.UserID # 0
    /\ req.FullName # ""
    /\ ~IsZero(req.DateOfBirth) /\ req.DateOfBirth < t
    /\ req.Sex \in sex_enum
    /\ req.EmailAddress \in WellFormedEmails
    /\ req.Age = 0 \/ (req.Age >= 18 /\ AgeMatchesDateOfBirth(req.Age, req.DateOfBirth, t))
    /\ req.PhoneNumber \in WellFormedPhones \cup {""}
    /\ req.PreferredCommunication \in preferred_communication_enum \cup {""}
    /\ req.SocioeconomicStatus \in socioeconomic_status_enum \cup {""}

\* C25: under the configured validator a CreatePatient request whose fields
\* all satisfy the documented rules passes validation and reaches the
\* repository's CreatePatient, and once the row is stored the handler
\* responds 201.
C25_ValidPatientIsCreated ==
    [][\A w \in Workers :
          LET r == rq'[w]
          IN  (/\ rq[w].pc = "idle"
               /\ r.op = "CreatePatient"
               /\ DocumentedPatient(r.in, now))
                  => /\ ~ErrorsAsValidation(r.err)
                     /\ Called(r, {"patientRepo.CreatePatient"})
                     /\ r.err = Nil => PatientHandlerCreatePatient(r.out, r.err).status = 201
                     /\ (~r.fault /\ r.in.UserID \in Users
                         /\ \A i \in DOMAIN patients :
                                patients[i].email_address # <<r.in.EmailAddress>>)
                            => r.err = Nil]_vars

\* a CreatePatient request that satisfies every documented rule was rejected
\* by the validation, before the repository, and its handler answered 400
C25_Witness ==
    \E w \in Workers :
        /\ rq[w].pc = "done"
        /\ rq[w].op = "CreatePatient"
        /\ DocumentedPatient(rq[w].in, now)
        /\ rq[w].in.Sex = "Male" /\ rq[w].in.Age = 32
        /\ ErrorsAsValidation(rq[w].err)
        /\ rq[w].err.code = "INVALID_PATIENT_DATA"
        /\ rq[w].calls = <<>>
        /\ PatientHandlerCreatePatient(rq[w].out, rq[w].err).status = 400

\* the fields under a one-of rule, and the values the rule is documented to
\* accept for each
OneOfFields(op) ==
    IF op \in {"CreateMedicalHistoryEntry", "UpdateMedicalHistoryEntry"} THEN {"Status"}
    ELSE IF op \in {"CreatePatient", "UpdatePatient"}
    THEN {"Sex", "PreferredCommunication", "SocioeconomicStatus"}
    ELSE {}

AllowedValues(f) ==
    CASE f = "Status" -> {"Active", "Inactive", "Resolved"}
      [] f = "Sex" -> {"Male", "Female", "Other"}
      [] f = "PreferredCommunication" -> {"Phone", "Email", "Text"}
      [] OTHER -> {"Low", "Middle", "High", "Decline to Answer"}

\* the validation of the finished request r rejected field f by its one-of rule
RejectedByOneOf(r, f) ==
    /\ ErrorsAsValidation(r.err)
    /\ \E k \in 1..Len(r.err.details) :
           r.err.details[k] = "Field " \o f \o " failed validation for tag oneof"

\* C26: under the configured validator the one-of rule accepts a non-empty
\* value exactly when it is one member of the field's allowed set, and
\* rejects no empty value.
C26_OneOfIsMembership ==
    \A w \in Workers :
        rq[w].pc = "done" =>
            \A f \in OneOfFields(rq[w].op) :
                IF rq[w].in[f] # ""
                THEN RejectedByOneOf(rq[w], f) <=> rq[w].in[f] \notin AllowedValues(f)
                ELSE ~RejectedByOneOf(rq[w], f)

\* the Create of a medical-history entry with status Active was rejected by
\* the one-of rule of the status
C26_Witness ==
    \E w \in Workers :
        /\ rq[w].pc = "done"
        /\ rq[w].op = "CreateMedicalHistoryEntry"
        /\ rq[w].in.Status = "Active"
        /\ rq[w].in.Condition = "Asthma"
        /\ RejectedByOneOf(rq[w], "Status")
        /\ rq[w].err.code = "INVALID_MEDICAL_HISTORY_DATA"
        /\ rq[w].calls = <<>>

\* the one-of rule as the validator applies it: it accepts the whole text
\* of the tag's parameter and nothing else
C26_OneOfIsWholeParameter ==
    \A w \in Workers :
        rq[w].pc = "done" =>
            \A f \in OneOfFields(rq[w].op) :
                rq[w].in[f] # "" =>
                    (RejectedByOneOf(rq[w], f)
                        <=> rq[w].in[f] \notin {StatusText, SexText,
                                               Join(PreferredCommunicationValues, " "),
                                               Join(SocioeconomicStatusValues, " ")})

\* the month and the day of the month of an instant
MonthOf(t) ==
    CHOOSE m \in 1..12 :
        /\ DaysBeforeMonth(Year(t), m) < YearDay(t)
        /\ YearDay(t) <= DaysBeforeMonth(Year(t), m + 1)
DayOfMonth(t) == YearDay(t) - DaysBeforeMonth(Year(t), MonthOf(t))

\* the age in whole years on the day t of someone born on the day birth
CalendarAge(birth, t) ==
    Year(t) - Year(birth)
        - (IF \/ MonthOf(t) < MonthOf(birth)
              \/ MonthOf(t) = MonthOf(birth) /\ DayOfMonth(t) < DayOfMonth(birth)
           THEN 1 ELSE 0)

C27_AgeIsCalendarAgeSameKind ==
    \A w \in Workers :
        (/\ rq[w].pc = "done" /\ rq[w].op = "AgeConsistency"
         /\ IsLeap(Year(now)) = IsLeap(Year(rq[w].in.DateOfBirth))) =>
            (rq[w].err = Nil <=> rq[w].in.Age = CalendarAge(rq[w].in.DateOfBirth, now))

\* the fields of the request type of an Update, with the kind of their zero
SetIn(op, rec) ==
    LET rules == RulesOf(op)
    IN  {rules[i].field : i \in {j \in 1..Len(rules) : ~IsZeroVal(rules[j].kind, rec[rules[j].field])}}

\* C28: an Update never clears a field: every field of the request type that
\* holds a value in the record the Update loads holds a value in the record
\* it merges, and, the Update succeeding, in the record it returns and
\* stores.
C28_UpdateNeverClears ==
    [][\A w \in Workers :
          LET r == rq'[w]
          IN  r.op \in UpdateOps
              => /\ r.merged # NoEntry
                    => SetIn(r.op, r.loaded) \subseteq SetIn(r.op, r.merged)
                 /\ (rq[w].pc = "update" /\ r.pc = "done" /\ r.err = Nil)
                    => /\ SetIn(r.op, rq[w].loaded) \subseteq SetIn(r.op, r.out)
                       /\ SetIn(r.op, rq[w].merged) \subseteq SetIn(r.op, r.out)]_vars

\* an Update whose request leaves a field empty has succeeded on a record
\* holding a value for that field, and returns the value
C28_Witness ==
    \E w \in Workers :
        /\ rq[w].pc = "done"
        /\ rq[w].op \in UpdateOps
        /\ rq[w].err = Nil
        /\ \E f \in SetIn(rq[w].op, rq[w].loaded) :
               /\ f \notin SetIn(rq[w].op, rq[w].in)
               /\ f \in SetIn(rq[w].op, rq[w].out)
        /\ SetIn(rq[w].op, rq[w].in) # {}

\* the operations routed by an entry id, the path parameter of the id, and
\* the text of the 400 for an id that is no number
RoutedOps ==
    {"UpdateLifestyleEntry", "DeleteLifestyleEntry", "UpdateMedicalHistoryEntry",
     "DeleteMedicalHistoryEntry"}
KeyOf(op) == IF op \in LifestyleOps THEN "lifestyle_id" ELSE "medical_history_id"
InvalidIDText(op) ==
    CASE op \in LifestyleOps -> "Invalid lifestyle ID"
      [] op = "UpdateMedicalHistoryEntry" -> "Invalid medical history ID"
      [] OTHER -> "Invalid entry ID"

Itoa(n) == CASE n = 1 -> "1" [] n = 2 -> "2" [] n = 3 -> "3" [] OTHER -> "x"

ParamsOf(op, patientID, entryID) ==
    IF op \in LifestyleOps
    THEN [patient_id |-> patientID, lifestyle_id |-> entryID]
    ELSE [patient_id |-> patientID, medical_history_id |-> entryID]

\* the step of a worker is the handler's first step on the parameters
RouteOf(w, params, r) ==
    CASE r.op = "UpdateLifestyleEntry" ->
             LifestyleHandlerUpdateLifestyleEntryRoute(w, params, r.in, r.caller, r.idp,
                                                       r.fault)
      [] r.op = "DeleteLifestyleEntry" ->
             LifestyleHandlerDeleteLifestyleEntryRoute(w, params, r.caller, r.idp, r.fault)
      [] r.op = "UpdateMedicalHistoryEntry" ->
             MedicalHistoryHandlerUpdateMedicalHistoryEntryRoute(w, params, r.in, r.caller,
                                                                 r.idp, r.fault)
      [] OTHER ->
             MedicalHistoryHandlerDeleteMedicalHistoryEntryRoute(w, params, r.caller, r.idp,
                                                                 r.fault)

\* the response to the request of finished service call r made under params
RouteResponse(params, r) ==
    IF EntryIDParam(params, KeyOf(r.op)).err
    THEN JSON(400, ErrorResponse(InvalidIDText(r.op)))
    ELSE Respond(r)

\* C29: Update and Delete of an entry do not depend on the patient_id path
\* parameter: the step a request takes under one patient_id value, with its
\* calls, its outcome and its change of the store, is the step of the same
\* request (entry id, body, caller) under every other patient_id value, and
\* the response to a finished request is the same under every patient_id
\* value, for the entry id it addressed and for an id that is no number.
C29_PathPatientIsIgnored ==
    /\ [](\A w \in Workers :
             (rq[w].pc = "done" /\ rq[w].op \in RoutedOps)
             => \A p1, p2 \in PathValues, e \in {Itoa(rq[w].id), "x"} :
                    RouteResponse(ParamsOf(rq[w].op, p1, e), rq[w])
                        = RouteResponse(ParamsOf(rq[w].op, p2, e), rq[w]))
    /\ [][\A w \in Workers :
             (rq[w].pc = "idle" /\ rq'[w].pc # "idle" /\ rq'[w].op \in RoutedOps)
             => \A p \in PathValues :
                    RouteOf(w, ParamsOf(rq'[w].op, p, Itoa(rq'[w].id)), rq'[w])]_vars

\* an Update or a Delete has changed the store for a caller the gate allowed,
\* on an entry whose owner is not the patient of some path value
C29_Witness ==
    \E w \in Workers :
        /\ rq[w].pc = "done"
        /\ rq[w].op \in RoutedOps
        /\ rq[w].err = Nil
        /\ Called(rq[w], WriteCalls)
        /\ \E p \in PathValues : Atoi(p).n # rq[w].loaded.PatientID
        /\ RouteResponse(ParamsOf(rq[w].op, "3", Itoa(rq[w].id)), rq[w]).status
               \in {200, 204}

\* the operations of the services, and those that are not Update or Delete
\* of an entry
ServiceOps == LifestyleOps \cup MedicalHistoryOps \cup {"CreatePatient", "GetPatient", "UpdatePatient"}
UngatedOps == ServiceOps \ GatedOps

\* the first step of the request of r is the step of its service's method
\* called with context ctx
ServiceCall(w, ctx, r) ==
    IF r.op \in LifestyleOps
    THEN LifestyleServiceCall(w, ctx, r.op, r.id, r.in, r.fault)
    ELSE IF r.op \in MedicalHistoryOps
    THEN MedicalHistoryServiceCall(w, ctx, r.op, r.id, r.in, r.fault)
    ELSE PatientServiceCall(w, ctx, r.op, r.id, r.in, r.fault)

\* C30: Create, List and Get of the entries and the three patient
\* operations never invoke the authorization gate nor look the caller up,
\* and do not depend on the caller: no such request has called authorize or
\* the identity provider, and the step such a request takes under one
\* context (caller identity, identity provider's answer), with its outcome
\* and its change of the store, is the step of the same request under every
\* other context; only Update and Delete of an entry call the gate.
C30_UngatedIgnoreCaller ==
    /\ [](\A w \in Workers :
             /\ rq[w].op \in UngatedOps
                => ~Called(rq[w], {"authorize", "clerk.User.GetUser"})
             /\ (rq[w].op \in ServiceOps /\ Called(rq[w], {"authorize"}))
                => rq[w].op \in GatedOps)
    /\ [][\A w \in Workers :
             (rq[w].pc = "idle" /\ rq'[w].pc # "idle" /\ rq'[w].op \in UngatedOps)
             => \A ctx \in Contexts : ServiceCall(w, ctx, rq'[w])]_vars

\* a Create has stored an entry for a patient about whom the gate would
\* answer two of the contexts differently
C30_Witness ==
    \E w \in Workers :
        /\ rq[w].pc = "done"
        /\ rq[w].op \in {"CreateLifestyleEntry", "CreateMedicalHistoryEntry"}
        /\ rq[w].err = Nil
        /\ Called(rq[w], WriteCalls)
        /\ rq[w].id \in DOMAIN patients
        /\ \E c1, c2 \in Contexts :
               /\ AuthorizeFn(c1.user_id, rq[w].id, c1.idp)
               /\ ~AuthorizeFn(c2.user_id, rq[w].id, c2.idp)

====
